---------------------------- MODULE Spec2Model ----------------------------
(***************************************************************************)
(* Model of the schedule parsing engine of postwmt (app/parser.py).        *)
(*                                                                         *)
(* Text is modelled as a sequence of one-character strings, so that the    *)
(* two regular expressions, str.strip and str.split are computed on the    *)
(* characters as Python computes them.  parse_schedule_text is modelled    *)
(* step by step: one action per branch of one iteration of its outer or    *)
(* inner loop.  A process calls it once per request (app/routes.py); the   *)
(* calls that returned are kept in a history variable, so that the results *)
(* of two calls can be compared.                                           *)
(***************************************************************************)
EXTENDS Integers, Sequences, FiniteSets, TLC

(***************************************************************************)
(* Bounds of the model.                                                    *)
(***************************************************************************)
MaxLines == 4
MaxHour == 25
MaxEntries == 3

(***************************************************************************)
(* Characters and strings.                                                 *)
(***************************************************************************)
None == <<>>

Digits == <<"0", "1", "2", "3", "4", "5", "6", "7", "8", "9">>

IsDigit(c) == \E k \in 1..10 : Digits[k] = c

DigitVal(c) == CHOOSE k \in 0..9 : Digits[k + 1] = c

Whitespace == {" ", "\t", "\n", "\r"}

NL == "\n"

RECURSIVE lstrip(_)
lstrip(s) ==
    IF s # <<>> /\ Head(s) \in Whitespace THEN lstrip(Tail(s)) ELSE s

RECURSIVE rstrip(_)
rstrip(s) ==
    IF s # <<>> /\ s[Len(s)] \in Whitespace
    THEN rstrip(SubSeq(s, 1, Len(s) - 1))
    ELSE s

\* str.strip(): leading and trailing whitespace removed
strip(s) == rstrip(lstrip(s))

\* str.split('\n'): the pieces between the separators, empty pieces kept
RECURSIVE split(_)
split(s) ==
    IF \E p \in 1..Len(s) : s[p] = NL
    THEN LET p == CHOOSE q \in 1..Len(s) :
                      s[q] = NL /\ \A r \in 1..(q - 1) : s[r] # NL
         IN  <<SubSeq(s, 1, p - 1)>> \o split(SubSeq(s, p + 1, Len(s)))
    ELSE <<s>>

\* int(): the value of a string of decimal digits
RECURSIVE int(_)
int(s) ==
    IF s = <<>> THEN 0
    ELSE 10 * int(SubSeq(s, 1, Len(s) - 1)) + DigitVal(s[Len(s)])

\* the format specification :02d, for the values it is applied to (0..23)
Format02d(n) == <<Digits[(n \div 10) + 1], Digits[(n % 10) + 1]>>

(***************************************************************************)
(* The two patterns.                                                       *)
(***************************************************************************)
\* \d{2}/\d{2}/\d{4} matched at position p of line
DateAt(line, p) ==
    /\ p + 9 <= Len(line)
    /\ \A k \in {0, 1, 3, 4, 6, 7, 8, 9} : IsDigit(line[p + k])
    /\ line[p + 2] = "/"
    /\ line[p + 5] = "/"

\* mutant: date_pattern.fullmatch, the line must be the date and nothing else
date_pattern_fullmatch(line) ==
    IF Len(line) = 10 /\ DateAt(line, 1) THEN line ELSE None

\* mutant: the last match in the line, not the first
date_pattern_search_last(line) ==
    IF \E p \in 1..Len(line) : DateAt(line, p)
    THEN LET p == CHOOSE q \in 1..Len(line) :
                      DateAt(line, q) /\ \A r \in (q + 1)..Len(line) : ~DateAt(line, r)
         IN  SubSeq(line, p, p + 9)
    ELSE None

\* date_pattern.search(line).group(1), None if there is no match
date_pattern_search(line) ==
    IF \E p \in 1..Len(line) : DateAt(line, p)
    THEN LET p == CHOOSE q \in 1..Len(line) :
                      DateAt(line, q) /\ \A r \in 1..(q - 1) : ~DateAt(line, r)
         IN  SubSeq(line, p, p + 9)
    ELSE None

\* number of whitespace characters at the head of s
RECURSIVE LeadingSpace(_)
LeadingSpace(s) ==
    IF s # <<>> /\ Head(s) \in Whitespace THEN 1 + LeadingSpace(Tail(s)) ELSE 0

NoMatch == [matched |-> FALSE, g1 |-> None, g2 |-> None, g3 |-> None, g4 |-> None]

\* mutant: TEN and $ are alternatives, ^\s*(\d{1,2})(?:(TEN)|(\$))?|^\s*(X)\s*
indicator_pattern_either(line) ==
    LET p  == LeadingSpace(line) + 1
        n  == Len(line)
    IN  IF p <= n /\ IsDigit(line[p])
        THEN LET nd == IF p + 1 <= n /\ IsDigit(line[p + 1]) THEN 2 ELSE 1
                 q  == p + nd
                 g2 == IF q + 2 <= n /\ SubSeq(line, q, q + 2) = <<"T", "E", "N">>
                       THEN <<"T", "E", "N">> ELSE None
                 g3 == IF g2 = None /\ q <= n /\ line[q] = "$"
                       THEN <<"$">> ELSE None
             IN  [matched |-> TRUE, g1 |-> SubSeq(line, p, q - 1),
                  g2 |-> g2, g3 |-> g3, g4 |-> None]
        ELSE IF p <= n /\ line[p] = "X"
        THEN [matched |-> TRUE, g1 |-> None, g2 |-> None, g3 |-> None,
              g4 |-> <<"X">>]
        ELSE NoMatch

\* indicator_pattern.match(line): ^\s*(\d{1,2})(TEN)?(\$)?|^\s*(X)\s*
indicator_pattern_match(line) ==
    LET p  == LeadingSpace(line) + 1
        n  == Len(line)
    IN  IF p <= n /\ IsDigit(line[p])
        THEN LET nd == IF p + 1 <= n /\ IsDigit(line[p + 1]) THEN 2 ELSE 1
                 q  == p + nd
                 g2 == IF q + 2 <= n /\ SubSeq(line, q, q + 2) = <<"T", "E", "N">>
                       THEN <<"T", "E", "N">> ELSE None
                 r  == q + Len(g2)
                 g3 == IF r <= n /\ line[r] = "$" THEN <<"$">> ELSE None
             IN  [matched |-> TRUE, g1 |-> SubSeq(line, p, q - 1),
                  g2 |-> g2, g3 |-> g3, g4 |-> None]
        ELSE IF p <= n /\ line[p] = "X"
        THEN [matched |-> TRUE, g1 |-> None, g2 |-> None, g3 |-> None,
              g4 |-> <<"X">>]
        ELSE NoMatch

(***************************************************************************)
(* Calendar dates and datetimes (datetime.datetime, minute always 0).      *)
(***************************************************************************)
MINYEAR == 1
MAXYEAR == 9999

IsLeap(y) == (y % 4 = 0) /\ ((y % 100 # 0) \/ (y % 400 = 0))

DaysInMonth(y, m) ==
    IF m = 2 THEN (IF IsLeap(y) THEN 29 ELSE 28)
    ELSE IF m \in {4, 6, 9, 11} THEN 30 ELSE 31

\* datetime.datetime.strptime(f"{date_str} {hh}:00", "%m/%d/%Y %H:%M"):
\* a naive datetime, or ValueError when the fields are no calendar date
strptime(date_str, hh) ==
    LET m == int(SubSeq(date_str, 1, 2))
        d == int(SubSeq(date_str, 4, 5))
        y == int(SubSeq(date_str, 7, 10))
        h == int(hh)
    IN  IF /\ m \in 1..12
           /\ y \in MINYEAR..MAXYEAR
           /\ d \in 1..DaysInMonth(y, m)
           /\ h \in 0..23
        THEN [exc |-> "", year |-> y, month |-> m, day |-> d, hour |-> h,
              tzinfo |-> "naive"]
        ELSE [exc |-> "ValueError"]

\* the day after the day of dt, same hour
NextDay(dt) ==
    IF dt.day < DaysInMonth(dt.year, dt.month)
    THEN [dt EXCEPT !.day = dt.day + 1]
    ELSE IF dt.month < 12
    THEN [dt EXCEPT !.month = dt.month + 1, !.day = 1]
    ELSE [dt EXCEPT !.year = dt.year + 1, !.month = 1, !.day = 1]

\* dt + datetime.timedelta(hours=n), wall-clock arithmetic, tzinfo kept
RECURSIVE AddHours(_, _)
AddHours(dt, n) ==
    IF n = 0 THEN dt
    ELSE IF dt.hour < 23
    THEN AddHours([dt EXCEPT !.hour = dt.hour + 1], n - 1)
    ELSE AddHours([NextDay(dt) EXCEPT !.hour = 0], n - 1)

\* mutant: the sum is a naive datetime, the zone is lost
timedelta_add_drops_zone(dt, n) ==
    LET r == AddHours(dt, n)
    IN  IF r.year > MAXYEAR THEN [exc |-> "OverflowError"]
        ELSE [r EXCEPT !.tzinfo = "naive"]

\* datetime.__add__: OverflowError when the result is past MAXYEAR
timedelta_add(dt, n) ==
    LET r == AddHours(dt, n)
    IN  IF r.year > MAXYEAR THEN [exc |-> "OverflowError"] ELSE r

(***************************************************************************)
(* Materializing one work shift (the body of the try block).               *)
(***************************************************************************)
SCHEDULE_TZ_NAME == "America/New_York"

\* mutant: the lower bound is exclusive
HourInRange_exclusive(start_hour) == 0 < start_hour /\ start_hour <= 23

\* 0 <= start_hour <= 23
HourInRange(start_hour) == 0 <= start_hour /\ start_hour <= 23

\* duration_hours = 10 if is_ten_hour else 8
duration_hours(is_ten_hour) == IF is_ten_hour THEN 10 ELSE 8

\* mutant: " (OT)" is appended to every summary
Summary_always_overtime(dur, is_overtime) ==
    <<"Work Shift (", (IF dur = 10 THEN "10" ELSE "8"), "hr)", " (OT)">>

\* summary = f"Work Shift ({duration_hours}hr)", then += " (OT)"
Summary(dur, is_overtime) ==
    <<"Work Shift (", (IF dur = 10 THEN "10" ELSE "8"), "hr)">>
        \o (IF is_overtime THEN <<" (OT)">> ELSE <<>>)

\* the statements of the try block: the exception raised ("" if none) and,
\* if none, the dictionary appended to parsed_events
WorkShift(date_str, start_hour_str, is_ten_hour, is_overtime, tz) ==
    LET start_hour == int(start_hour_str)
    IN  IF ~HourInRange(start_hour) THEN [exc |-> "ValueError"]
        ELSE
        LET dur   == duration_hours(is_ten_hour)
            naive == strptime(date_str, Format02d(start_hour))
        IN  IF naive.exc # "" THEN [exc |-> naive.exc]
            ELSE
            LET aware_start_dt == [year |-> naive.year, month |-> naive.month,
                                   day |-> naive.day, hour |-> naive.hour,
                                   tzinfo |-> tz]
                aware_end_dt   == timedelta_add(aware_start_dt, dur)
            IN  IF "exc" \in DOMAIN aware_end_dt
                THEN [exc |-> aware_end_dt.exc]
                ELSE [exc |-> "",
                      event |-> [date_str    |-> date_str,
                                 start_dt    |-> aware_start_dt,
                                 end_dt      |-> aware_end_dt,
                                 is_overtime |-> is_overtime,
                                 summary     |-> Summary(dur, is_overtime)]]

\* mutant: only "except ValueError" is there
ExceptClause_value_error_only(exc) ==
    IF exc = "ValueError" THEN "ValueError" ELSE "none"

\* mutant: no except clause, the exception leaves the function
ExceptClause_none(exc) == "none"

\* the except clause that handles exc: "except ValueError", "except Exception"
\* (every exception the try block raises derives from Exception)
ExceptClause(exc) ==
    IF exc = "ValueError" THEN "ValueError" ELSE "Exception"

(***************************************************************************)
(* The state of one call of parse_schedule_text, and of the process that   *)
(* makes the calls.                                                        *)
(***************************************************************************)
VARIABLES
    gettz,              \* what tz.gettz('America/New_York') returns on this host
    history,            \* history: the calls that returned, in order
    calls_left,         \* how many more requests the process serves
    text_schedule,      \* the argument
    pc,                 \* "start", "outer", "inner", "after_inner", "done", "raised"
    lines,              \* text_schedule.strip().split('\n')
    SCHEDULE_TZ,        \* the zone attached to every datetime
    i,                  \* the cursor: index (from 0) of the next line to read
    current_date_str,   \* the pending date, or None
    indicator_found,    \* an indicator was matched for the pending date
    parsed_events,      \* the list that is returned
    log,                \* the calls of current_app.logger, in order
    date_line,          \* history: index of the line of the pending date
    pairings,           \* history: how the search of each date line ended
    reads,              \* history: the lines read, in order, and by which loop
    route,              \* the view function serving the request, or "none"
    hpc,                \* the position of the view function
    session,            \* session.get('google_id'), "None" when there is none
    users,              \* the rows of the table of User
    schedule_text,      \* request.form.get('schedule_text', '')
    ics_raises,         \* the ics library raises on this host
    items,              \* the argument of a direct call of create_ics_content
    ics_content,        \* what create_ics_content returned, its content lines
    success_count,      \* events inserted by this request
    fail_count,         \* events this request failed to insert
    event_index,        \* the position of the loop over parsed_events
    api_calls,          \* the calls this request made to Google, in order
    calendar,           \* the events of the user's primary calendar
    flashed,            \* the messages flashed by this request
    response,           \* what the view function returned, status 0 before
    creds,              \* the credentials a direct call of insert_event is given
    returned,           \* what a direct call of insert_event returned or raised
    callback,           \* the locals of auth.callback in this browser's request
    rival               \* a callback served at the same time for another browser

\* the state of the web layer
web == <<route, hpc, session, users, schedule_text, ics_raises, items,
         ics_content, success_count, fail_count, event_index, api_calls,
         calendar, flashed, response, creds, returned, callback, rival>>

\* the state of insert_event and of the auth blueprint
auth_utils == <<creds, returned, callback, rival>>

\* no callback is being served
NoCallback == [refresh_token |-> "None", google_id |-> "None", user |-> 0]

\* no other browser is there
NoRival == [hpc |-> "none", session |-> "None", flashed |-> <<>>,
            response |-> [status |-> 0], locals |-> NoCallback]

vars == <<web, gettz, history, calls_left, text_schedule, pc, lines, SCHEDULE_TZ, i, current_date_str,
          indicator_found, parsed_events, log, date_line, pairings, reads>>

\* lines[i].strip(), with the index from 0 as in the code
Line(k) == strip(lines[k + 1])

Logged(level, what) == log \o <<[level |-> level, what |-> what]>>

Paired(ind, outcome) ==
    pairings \o <<[date_line |-> date_line, ind_line |-> ind, outcome |-> outcome]>>

\* no request is being served: the web layer at rest
NoRequest ==
    /\ route = "none"
    /\ hpc = "none"
    /\ session = "None"
    /\ users = <<>>
    /\ schedule_text = <<>>
    /\ ics_raises = FALSE
    /\ items = <<>>
    /\ ics_content = <<>>
    /\ success_count = 0
    /\ fail_count = 0
    /\ event_index = 0
    /\ api_calls = <<>>
    /\ calendar = <<>>
    /\ flashed = <<>>
    /\ response = [status |-> 0]
    /\ creds = "None"
    /\ returned = [exc |-> "unset"]
    /\ callback = NoCallback
    /\ rival = NoRival

\* the state before the first statement of a call with argument t
InitCall(t) ==
    /\ NoRequest
    /\ gettz \in {SCHEDULE_TZ_NAME, "None"}
    /\ history = <<>>
    /\ text_schedule = t
    /\ pc = "start"
    /\ lines = <<>>
    /\ SCHEDULE_TZ = "unset"
    /\ i = 0
    /\ current_date_str = None
    /\ indicator_found = FALSE
    /\ parsed_events = <<>>
    /\ log = <<>>
    /\ date_line = -1
    /\ pairings = <<>>
    /\ reads = <<>>

(***************************************************************************)
(* The steps of parse_schedule_text.                                       *)
(***************************************************************************)
\* mutant: the list of events is not created anew, it outlives the call
Start_keeps_events ==
    /\ pc = "start"
    /\ lines' = split(strip(text_schedule))
    /\ IF gettz # "None"
       THEN /\ SCHEDULE_TZ' = gettz
            /\ log' = Logged("info", "start")
       ELSE /\ SCHEDULE_TZ' = "tzlocal"
            /\ log' = log \o <<[level |-> "info", what |-> "start"],
                               [level |-> "error", what |-> "timezone"]>>
    /\ current_date_str' = None
    /\ i' = 0
    /\ pc' = "outer"
    /\ date_line' = -1
    /\ pairings' = <<>>
    /\ reads' = <<>>
    /\ UNCHANGED <<web, gettz, history, calls_left,
                   text_schedule, indicator_found, parsed_events>>

\* the statements before the outer loop; tz.gettz may return None
Start ==
    /\ pc = "start"
    /\ lines' = split(strip(text_schedule))
    /\ IF gettz # "None"
       THEN /\ SCHEDULE_TZ' = gettz
            /\ log' = Logged("info", "start")
       ELSE /\ SCHEDULE_TZ' = "tzlocal"
            /\ log' = log \o <<[level |-> "info", what |-> "start"],
                               [level |-> "error", what |-> "timezone"]>>
    /\ parsed_events' = <<>>
    /\ current_date_str' = None
    /\ i' = 0
    /\ pc' = "outer"
    /\ date_line' = -1
    /\ pairings' = <<>>
    /\ reads' = <<>>
    /\ UNCHANGED <<web, gettz, history, calls_left,
                   text_schedule, indicator_found>>

\* outer loop, an empty line: continue
OuterBlank ==
    /\ pc = "outer"
    /\ i < Len(lines)
    /\ Line(i) = <<>>
    /\ i' = i + 1
    /\ reads' = Append(reads, [line |-> i, by |-> "outer"])
    /\ UNCHANGED <<web, gettz, history, calls_left,
                   text_schedule, pc, lines, SCHEDULE_TZ, current_date_str,
                   indicator_found, parsed_events, log, date_line, pairings>>

\* mutant: an indicator met while no date is pending is remembered
OuterNoDate_notes_indicator ==
    /\ pc = "outer"
    /\ i < Len(lines)
    /\ Line(i) # <<>>
    /\ date_pattern_search(Line(i)) = None
    /\ i' = i + 1
    /\ indicator_found' = indicator_pattern_match(Line(i)).matched
    /\ reads' = Append(reads, [line |-> i, by |-> "outer"])
    /\ UNCHANGED <<web, gettz, history, calls_left,
                   text_schedule, pc, lines, SCHEDULE_TZ, current_date_str,
                   parsed_events, log, date_line, pairings>>

\* outer loop, a line without a date: ignored
OuterNoDate ==
    /\ pc = "outer"
    /\ i < Len(lines)
    /\ Line(i) # <<>>
    /\ date_pattern_search(Line(i)) = None
    /\ i' = i + 1
    /\ reads' = Append(reads, [line |-> i, by |-> "outer"])
    /\ UNCHANGED <<web, gettz, history, calls_left,
                   text_schedule, pc, lines, SCHEDULE_TZ, current_date_str,
                   indicator_found, parsed_events, log, date_line, pairings>>

\* outer loop, a line containing a date: it becomes the pending date
OuterDate ==
    /\ pc = "outer"
    /\ i < Len(lines)
    /\ Line(i) # <<>>
    /\ date_pattern_search(Line(i)) # None
    /\ current_date_str' = date_pattern_search(Line(i))
    /\ indicator_found' = FALSE
    /\ i' = i + 1
    /\ date_line' = i
    /\ log' = Logged("debug", "found date")
    /\ pc' = "inner"
    /\ reads' = Append(reads, [line |-> i, by |-> "outer"])
    /\ UNCHANGED <<web, gettz, history, calls_left,
                   text_schedule, lines, SCHEDULE_TZ, parsed_events, pairings>>

\* inner loop, an empty line: continue
InnerBlank ==
    /\ pc = "inner"
    /\ i < Len(lines)
    /\ Line(i) = <<>>
    /\ i' = i + 1
    /\ reads' = Append(reads, [line |-> i, by |-> "inner"])
    /\ UNCHANGED <<web, gettz, history, calls_left,
                   text_schedule, pc, lines, SCHEDULE_TZ, current_date_str,
                   indicator_found, parsed_events, log, date_line, pairings>>

\* mutant: the day off neither clears the pending date nor leaves the loop
InnerDayOff_no_break ==
    /\ pc = "inner"
    /\ i < Len(lines)
    /\ Line(i) # <<>>
    /\ LET indicator_match == indicator_pattern_match(Line(i))
       IN  /\ indicator_match.matched
           /\ indicator_match.g4 = <<"X">>
    /\ i' = i + 1
    /\ indicator_found' = TRUE
    /\ log' = log \o <<[level |-> "debug", what |-> "found indicator"],
                       [level |-> "info", what |-> "day off"]>>
    /\ pairings' = Paired(i, "day_off")
    /\ reads' = Append(reads, [line |-> i, by |-> "inner"])
    /\ UNCHANGED <<web, gettz, history, calls_left,
                   text_schedule, pc, lines, SCHEDULE_TZ, current_date_str,
                   parsed_events, date_line>>

\* inner loop, the line matches the indicator pattern with X
InnerDayOff ==
    /\ pc = "inner"
    /\ i < Len(lines)
    /\ Line(i) # <<>>
    /\ LET indicator_match == indicator_pattern_match(Line(i))
       IN  /\ indicator_match.matched
           /\ indicator_match.g4 = <<"X">>
    /\ i' = i + 1
    /\ indicator_found' = TRUE
    /\ log' = log \o <<[level |-> "debug", what |-> "found indicator"],
                       [level |-> "info", what |-> "day off"]>>
    /\ current_date_str' = None
    /\ pairings' = Paired(i, "day_off")
    /\ pc' = "after_inner"
    /\ reads' = Append(reads, [line |-> i, by |-> "inner"])
    /\ UNCHANGED <<web, gettz, history, calls_left,
                   text_schedule, lines, SCHEDULE_TZ, parsed_events, date_line>>

\* mutant: parsed_events.insert(0, event)
list_prepend(events, event) == <<event>> \o events

\* parsed_events.append(event)
list_append(events, event) == Append(events, event)

\* mutant: the date is cleared and the loop left only when an event was added
IndicatorHandled_on_success(exc) ==
    IF exc = "" THEN [current_date_str |-> None, pc |-> "after_inner"]
    ELSE [current_date_str |-> current_date_str, pc |-> "inner"]

\* mutant: the date stays pending and the search goes on after an indicator
IndicatorHandled_search_goes_on(exc) ==
    [current_date_str |-> current_date_str, pc |-> "inner"]

\* after the indicator was handled (exc is the exception caught, "" if
\* none): current_date_str = None; break
IndicatorHandled(exc) == [current_date_str |-> None, pc |-> "after_inner"]

\* inner loop, the line matches the indicator pattern without X
InnerShift ==
    /\ pc = "inner"
    /\ i < Len(lines)
    /\ Line(i) # <<>>
    /\ LET indicator_match == indicator_pattern_match(Line(i))
           start_hour_str  == indicator_match.g1
           is_ten_hour     == indicator_match.g2 = <<"T", "E", "N">>
           is_overtime     == indicator_match.g3 = <<"$">>
           found           == Logged("debug", "found indicator")
           r == IF start_hour_str # None
                THEN WorkShift(current_date_str, start_hour_str, is_ten_hour,
                               is_overtime, SCHEDULE_TZ)
                ELSE [exc |-> "no hour"]
           clause == IF r.exc \in {"", "no hour"} THEN r.exc
                     ELSE ExceptClause(r.exc)
       IN  /\ indicator_match.matched
           /\ indicator_match.g4 # <<"X">>
           /\ i' = i + 1
           /\ indicator_found' = TRUE
           /\ IF clause \in {"", "no hour", "ValueError", "Exception"}
              THEN /\ parsed_events' = IF clause = ""
                                       THEN list_append(parsed_events, r.event)
                                       ELSE parsed_events
                   /\ log' = found \o
                        << CASE clause = "" ->
                                  [level |-> "info", what |-> "added event"]
                             [] clause = "ValueError" ->
                                  [level |-> "error", what |-> "failed to parse hour"]
                             [] clause = "Exception" ->
                                  [level |-> "error", what |-> "failed create datetime"]
                             [] clause = "no hour" ->
                                  [level |-> "warning", what |-> "no hour or X"] >>
                   /\ pairings' = Paired(i, IF clause = "" THEN "event" ELSE "rejected")
                   /\ current_date_str' = IndicatorHandled(r.exc).current_date_str
                   /\ pc' = IndicatorHandled(r.exc).pc
              ELSE \* no except clause matches: the exception leaves the call
                   /\ pc' = "raised"
                   /\ log' = found
                   /\ UNCHANGED <<parsed_events, pairings, current_date_str>>
    /\ reads' = Append(reads, [line |-> i, by |-> "inner"])
    /\ UNCHANGED <<web, gettz, history, calls_left,
                   text_schedule, lines, SCHEDULE_TZ, date_line>>

\* mutant: the rewind moves the cursor onto the line before the one read
InnerNextDate_rewinds_twice ==
    /\ pc = "inner"
    /\ i < Len(lines)
    /\ Line(i) # <<>>
    /\ ~indicator_pattern_match(Line(i)).matched
    /\ date_pattern_search(Line(i)) # None
    /\ i' = (i + 1) - 2
    /\ log' = Logged("debug", "next line is a date")
    /\ current_date_str' = None
    /\ pairings' = Paired(-1, "next_date")
    /\ pc' = "after_inner"
    /\ reads' = Append(reads, [line |-> i, by |-> "inner"])
    /\ UNCHANGED <<web, gettz, history, calls_left,
                   text_schedule, lines, SCHEDULE_TZ, indicator_found,
                   parsed_events, date_line>>

\* inner loop, not an indicator but a line containing a date: the cursor
\* is pushed back and the pending date discarded
InnerNextDate ==
    /\ pc = "inner"
    /\ i < Len(lines)
    /\ Line(i) # <<>>
    /\ ~indicator_pattern_match(Line(i)).matched
    /\ date_pattern_search(Line(i)) # None
    /\ i' = (i + 1) - 1
    /\ log' = Logged("debug", "next line is a date")
    /\ current_date_str' = None
    /\ pairings' = Paired(-1, "next_date")
    /\ pc' = "after_inner"
    /\ reads' = Append(reads, [line |-> i, by |-> "inner"])
    /\ UNCHANGED <<web, gettz, history, calls_left,
                   text_schedule, lines, SCHEDULE_TZ, indicator_found,
                   parsed_events, date_line>>

\* mutant: text that is no indicator ends the search for the pending date
InnerOtherText_abandons ==
    /\ pc = "inner"
    /\ i < Len(lines)
    /\ Line(i) # <<>>
    /\ ~indicator_pattern_match(Line(i)).matched
    /\ date_pattern_search(Line(i)) = None
    /\ i' = i + 1
    /\ log' = Logged("debug", "ignoring line")
    /\ current_date_str' = None
    /\ pc' = "after_inner"
    /\ reads' = Append(reads, [line |-> i, by |-> "inner"])
    /\ UNCHANGED <<web, gettz, history, calls_left,
                   text_schedule, lines, SCHEDULE_TZ,
                   indicator_found, parsed_events, date_line, pairings>>

\* inner loop, some other text: ignored, the search continues
InnerOtherText ==
    /\ pc = "inner"
    /\ i < Len(lines)
    /\ Line(i) # <<>>
    /\ ~indicator_pattern_match(Line(i)).matched
    /\ date_pattern_search(Line(i)) = None
    /\ i' = i + 1
    /\ log' = Logged("debug", "ignoring line")
    /\ reads' = Append(reads, [line |-> i, by |-> "inner"])
    /\ UNCHANGED <<web, gettz, history, calls_left,
                   text_schedule, pc, lines, SCHEDULE_TZ, current_date_str,
                   indicator_found, parsed_events, date_line, pairings>>

\* inner loop, its condition is false: the input is exhausted
InnerEnd ==
    /\ pc = "inner"
    /\ i >= Len(lines)
    /\ pc' = "after_inner"
    /\ UNCHANGED <<reads, web, gettz, history, calls_left,
                   text_schedule, lines, SCHEDULE_TZ, i, current_date_str,
                   indicator_found, parsed_events, log, date_line, pairings>>

\* mutant: a date without indicator also discards the events found so far
AfterInner_discards_events ==
    /\ pc = "after_inner"
    /\ IF ~indicator_found /\ current_date_str # None
       THEN /\ log' = Logged("warning", "date without indicator")
            /\ current_date_str' = None
            /\ pairings' = Paired(-1, "end_of_input")
            /\ parsed_events' = <<>>
       ELSE UNCHANGED <<log, current_date_str, pairings, parsed_events>>
    /\ pc' = "outer"
    /\ UNCHANGED <<reads, web, gettz, history, calls_left,
                   text_schedule, lines, SCHEDULE_TZ, i, indicator_found,
                   date_line>>

\* mutant: a date without indicator stays pending after the inner loop
AfterInner_keeps_pending ==
    /\ pc = "after_inner"
    /\ IF ~indicator_found /\ current_date_str # None
       THEN /\ log' = Logged("warning", "date without indicator")
            /\ pairings' = Paired(-1, "end_of_input")
            /\ UNCHANGED current_date_str
       ELSE UNCHANGED <<log, current_date_str, pairings>>
    /\ pc' = "outer"
    /\ UNCHANGED <<reads, web, gettz, history, calls_left,
                   text_schedule, lines, SCHEDULE_TZ, i, indicator_found,
                   parsed_events, date_line>>

\* after the inner loop: a date still pending had no indicator
AfterInner ==
    /\ pc = "after_inner"
    /\ IF ~indicator_found /\ current_date_str # None
       THEN /\ log' = Logged("warning", "date without indicator")
            /\ current_date_str' = None
            /\ pairings' = Paired(-1, "end_of_input")
       ELSE UNCHANGED <<log, current_date_str, pairings>>
    /\ pc' = "outer"
    /\ UNCHANGED <<reads, web, gettz, history, calls_left,
                   text_schedule, lines, SCHEDULE_TZ, i, indicator_found,
                   parsed_events, date_line>>

\* the outer loop's condition is false: return parsed_events
Finish ==
    /\ pc = "outer"
    /\ i >= Len(lines)
    /\ log' = Logged("info", "finished")
    /\ pc' = "done"
    /\ UNCHANGED <<reads, web, gettz, history, calls_left,
                   text_schedule, lines, SCHEDULE_TZ, i, current_date_str,
                   indicator_found, parsed_events, date_line, pairings>>


(***************************************************************************)
(* Input texts.                                                            *)
(***************************************************************************)
\* '\n'.join(ls)
RECURSIVE Join(_)
Join(ls) ==
    IF ls = <<>> THEN <<>>
    ELSE IF Len(ls) = 1 THEN ls[1]
    ELSE ls[1] \o <<NL>> \o Join(Tail(ls))

Format04d(n) ==
    <<Digits[(n \div 1000) + 1], Digits[((n \div 100) % 10) + 1],
      Digits[((n \div 10) % 10) + 1], Digits[(n % 10) + 1]>>

\* the token MM/DD/YYYY
DateToken(m, d, y) ==
    Format02d(m) \o <<"/">> \o Format02d(d) \o <<"/">> \o Format04d(y)

TEN == <<"T", "E", "N">>

Sun == <<" ", "S", "u", "n">>

FreeText == <<"S", "o", "m", "e", " ", "t", "e", "x", "t">>

\* the inputs of tests/test_parser.py, and a run of date lines that do not
\* begin with their date
Scenarios ==
    { <<>>,
      Join(<<DateToken(4, 15, 2024) \o Sun, <<"2", "1">>>>),
      Join(<<DateToken(4, 19, 2024) \o Sun, <<"X">>>>),
      Join(<<DateToken(4, 20, 2024) \o Sun, <<"0", "9">>,
             DateToken(4, 21, 2024) \o Sun, <<"X">>,
             DateToken(4, 22, 2024) \o Sun, <<"1", "4">> \o TEN \o <<"$">>,
             FreeText,
             DateToken(4, 23, 2024) \o Sun, <<"0", "8">> \o TEN>>),
      Join(<<DateToken(4, 24, 2024) \o Sun, <<"9", "9">>>>),
      Join(<<FreeText, <<"2", "1">>>>),
      Join(<<DateToken(4, 25, 2024) \o Sun, FreeText>>),
      <<"2", "1">> \o TEN \o <<"$">>,
      Join(<<<<" ", " ">> \o DateToken(4, 26, 2024) \o Sun \o <<" ">> \o FreeText,
             <<" ", " ", "\t", "2", "2">> \o TEN \o <<" ", " ">> \o FreeText>>),
      Join(<<DateToken(4, 27, 2024) \o Sun, <<>>, <<>>, <<"0", "6", "$">>>>),
      Join(<<DateToken(4, 28, 2024) \o Sun \o <<" ">> \o FreeText,
             DateToken(4, 29, 2024) \o Sun, <<"1", "0">>>>),
      Join(<<<<"S", "u", "n", " ">> \o DateToken(4, 28, 2024), <<>>,
             <<"S", "u", "n", " ">> \o DateToken(4, 29, 2024), <<"1", "0">>,
             <<>>, <<"7">>>>) }

\* every text of at most MaxLines lines drawn from these lines
LineAlphabet ==
    { DateToken(4, 28, 2024) \o Sun,
      DateToken(4, 29, 2024),
      <<"S", "u", "n", " ">> \o DateToken(4, 30, 2024),
      DateToken(2, 30, 2024),
      <<"1", "0">>,
      <<"9", "9">>,
      <<"X">>,
      <<>>,
      FreeText }

RECURSIVE SeqsUpTo(_, _)
SeqsUpTo(S, n) ==
    IF n = 0 THEN {<<>>}
    ELSE LET shorter == SeqsUpTo(S, n - 1)
         IN  shorter \cup {Append(q, x) : q \in {r \in shorter : Len(r) = n - 1}, x \in S}

Texts == {Join(ls) : ls \in SeqsUpTo(LineAlphabet, MaxLines)}

\* a date line followed by one line built around an hour: h, hTEN, h$,
\* hTEN$, A<h>, AOA<h>, AOB<h>, the hour written with one or two digits
HourTexts ==
    {Format02d(h) : h \in 0..MaxHour} \cup {<<Digits[h + 1]>> : h \in 0..9}

IndicatorForms(ht) ==
    { ht, ht \o TEN, ht \o <<"$">>, ht \o TEN \o <<"$">>,
      <<"A", "<">> \o ht \o <<">">>,
      <<"A", "O", "A", "<">> \o ht \o <<">">>,
      <<"A", "O", "B", "<">> \o ht \o <<">">> }

ShiftDates ==
    { DateToken(4, 15, 2024), DateToken(2, 29, 2024), DateToken(12, 31, 2024),
      DateToken(2, 30, 2024), DateToken(12, 31, 9999) }

ShiftTexts ==
    { Join(<<d \o w, f>>) :
        d \in ShiftDates, w \in {<<>>, Sun},
        f \in UNION {IndicatorForms(ht) : ht \in HourTexts} }

\* at most MaxEntries entries, the k-th a date line for the date 04/(19+k)/2024
\* followed by one line: a work shift, X, an invalid hour or free text
EntryLines == {<<"0", "9">>, <<"1", "4">> \o TEN \o <<"$">>, <<"X">>,
               <<"9", "9">>, FreeText}

EntryDateLine(k, style) ==
    IF style = "first" THEN DateToken(4, 19 + k, 2024) \o Sun
    ELSE <<"S", "u", "n", " ">> \o DateToken(4, 19 + k, 2024)

EntryTexts ==
    { Join([k \in 1..(2 * Len(es)) |->
               IF k % 2 = 1 THEN EntryDateLine((k + 1) \div 2, es[(k + 1) \div 2][1])
               ELSE es[k \div 2][2]]) :
        es \in SeqsUpTo({"first", "mid"} \X EntryLines, MaxEntries) }

\* at most MaxEntries pieces, each a date line directly followed by an hour
\* line, or an indicator line alone; the date of the k-th piece is
\* 04/(19+k)/2024, or no day of the calendar, or the last day of year 9999
PieceDate(k, which) ==
    CASE which = "real"  -> DateToken(4, 19 + k, 2024) \o Sun
      [] which = "feb30" -> DateToken(2, 30, 2024)
      [] which = "m13"   -> DateToken(13, 45, 2024) \o Sun
      [] which = "max"   -> DateToken(12, 31, 9999)

Pieces ==
    ({"real", "feb30", "m13", "max"}
        \X {<<"0", "9">>, <<"1", "4">> \o TEN \o <<"$">>, <<"9", "9">>})
    \cup {<<"alone", <<"2", "1">>>>}

RECURSIVE PieceLines(_, _)
PieceLines(ps, k) ==
    IF k > Len(ps) THEN <<>>
    ELSE (IF ps[k][1] = "alone" THEN <<ps[k][2]>>
          ELSE <<PieceDate(k, ps[k][1]), ps[k][2]>>) \o PieceLines(ps, k + 1)

MalformedTexts == {Join(PieceLines(ps, 1)) : ps \in SeqsUpTo(Pieces, MaxEntries)}

(***************************************************************************)
(* The calls of one process: a request handler calls parse_schedule_text   *)
(* with the text of each request, one request after the other.             *)
(***************************************************************************)
MaxCalls == 3

InsertAt(ls, k, l) == SubSeq(ls, 1, k) \o <<l>> \o SubSeq(ls, k + 1, Len(ls))

\* lines that are blank, or text without an indicator and without a date
Fillers == {<<>>, <<" ", "\t">>, FreeText}

LeadingWhitespace == <<" ", " ", "\t">>

TrailingText == <<" ", " ">> \o FreeText

\* every line with a date or an indicator gets whitespace before it and
\* text after it
Adorned(ls) ==
    [k \in 1..Len(ls) |->
        IF date_pattern_search(ls[k]) # None \/ indicator_pattern_match(ls[k]).matched
        THEN LeadingWhitespace \o ls[k] \o TrailingText
        ELSE ls[k]]

OtherTexts == {Join(<<DateToken(5, 1, 2024), <<"7", "$">>>>)}

\* the text of the next request: the same text, the text of an earlier
\* request, the text with one line more or with adorned lines, another text
FollowUps ==
    {text_schedule} \cup {history[n].text_schedule : n \in 1..Len(history)}
    \cup {Join(InsertAt(lines, k, l)) : k \in 1..(Len(lines) - 1), l \in Fillers}
    \cup {Join(Adorned(lines))}
    \cup OtherTexts

\* parse_schedule_text has returned to the handler; the next request comes
Again ==
    /\ route = "none"
    /\ pc = "done"
    /\ calls_left > 0
    /\ calls_left' = calls_left - 1
    /\ history' = Append(history, [text_schedule |-> text_schedule,
                                   lines |-> lines,
                                   SCHEDULE_TZ |-> SCHEDULE_TZ,
                                   parsed_events |-> parsed_events])
    /\ \E t \in FollowUps : text_schedule' = t
    /\ pc' = "start"
    /\ UNCHANGED <<reads, web, gettz, lines, SCHEDULE_TZ, i, current_date_str,
                   indicator_found, parsed_events, log, date_line, pairings>>

AgainTexts ==
    { Join(<<DateToken(4, 28, 2024) \o Sun, <<"2", "2">> \o TEN>>),
      Join(<<DateToken(4, 28, 2024) \o Sun, DateToken(4, 29, 2024), <<"1", "0">>>>),
      Join(<<EntryDateLine(1, "mid"), EntryDateLine(2, "mid"), <<"1", "0">>>>),
      Join(<<DateToken(4, 28, 2024), <<"X">>>>),
      Join(<<DateToken(4, 28, 2024), <<"9", "9">>>>),
      Join(<<DateToken(4, 28, 2024), <<"0", "9">>, <<"2", "1">>>>),
      Join(<<DateToken(4, 28, 2024)>>),
      Join(<<EntryDateLine(9, "mid") \o <<" ", "t", "o", " ">> \o DateToken(5, 2, 2024),
             <<"0", "9">>>>),
      <<>> }

(***************************************************************************)
(* utils.create_ics_content: the events as the text of an iCalendar file.  *)
(***************************************************************************)
\* item.get(key, default)
Get(item, key, default) == IF key \in DOMAIN item THEN item[key] ELSE default

\* not item.get(key): there is no value (None is modelled as an absent key)
Absent(item, key) == key \notin DOMAIN item

\* one content line of the file, NAME:value
ContentLine(name, value) == [name |-> name, value |-> value]

\* mutant: an event is added for an item with a naive datetime as well
IsNaive_never(dt) == FALSE

\* dt.tzinfo is None
IsNaive(dt) == dt.tzinfo = "naive"

\* what ics serializes for Event(name, begin, end): the datetimes are written
\* as instants in UTC, the uid is drawn by the library
VEvent(summary, begin, end) ==
    << ContentLine("BEGIN", "VEVENT"),
       ContentLine("DTEND", end),
       ContentLine("DTSTART", begin),
       ContentLine("SUMMARY", summary),
       ContentLine("UID", "uuid4"),
       ContentLine("END", "VEVENT") >>

\* the content lines of the events added to c.events for parsed[k..]
RECURSIVE EventLines(_, _)
EventLines(parsed, k) ==
    IF k > Len(parsed) THEN <<>>
    ELSE LET item           == parsed[k]
             summary        == Get(item, "summary", <<"Work Shift">>)
         IN  IF Absent(item, "start_dt") \/ Absent(item, "end_dt")
             THEN EventLines(parsed, k + 1)
             ELSE IF IsNaive(item.start_dt) \/ IsNaive(item.end_dt)
             THEN EventLines(parsed, k + 1)
             ELSE VEvent(summary, item.start_dt, item.end_dt)
                      \o EventLines(parsed, k + 1)

\* what the loop over parsed[k..] logs
RECURSIVE SkipLog(_, _)
SkipLog(parsed, k) ==
    IF k > Len(parsed) THEN <<>>
    ELSE LET item == parsed[k]
         IN  IF Absent(item, "start_dt") \/ Absent(item, "end_dt")
             THEN <<[level |-> "warning", what |-> "ics: missing start/end"]>>
                      \o SkipLog(parsed, k + 1)
             ELSE IF IsNaive(item.start_dt) \/ IsNaive(item.end_dt)
             THEN <<[level |-> "error", what |-> "ics: naive datetime"]>>
                      \o SkipLog(parsed, k + 1)
             ELSE SkipLog(parsed, k + 1)

\* c.serialize() of a calendar with these event lines
Serialize(event_lines) ==
    << ContentLine("BEGIN", "VCALENDAR"),
       ContentLine("VERSION", "2.0"),
       ContentLine("PRODID", "ics.py - http://git.io/lLljaA") >>
        \o event_lines
        \o << ContentLine("END", "VCALENDAR") >>

RECURSIVE SumLen(_)
SumLen(pieces) ==
    IF pieces = <<>> THEN 0 ELSE Len(Head(pieces)) + SumLen(Tail(pieces))

\* the characters of one content line
LineLen(l) ==
    Len(l.name) + 1 +
        (CASE l.name \in {"DTSTART", "DTEND"} -> 16   \* 20240415T210000Z
           [] l.name = "SUMMARY" -> SumLen(l.value)
           [] l.name = "UID" -> 45                    \* uuid4@xxxx.org
           [] OTHER -> Len(l.value))

\* len(ics_string): the lines are joined with "\r\n"
RECURSIVE len(_)
len(content) ==
    IF content = <<>> THEN 0
    ELSE IF Len(content) = 1 THEN LineLen(content[1])
    ELSE LineLen(Head(content)) + 2 + len(Tail(content))

\* create_ics_content(parsed): the string returned ("" when the library
\* raised, caught by "except Exception") and what was logged
create_ics_content(parsed) ==
    LET entered == <<[level |-> "info", what |-> "ics: start"]>>
                       \o SkipLog(parsed, 1)
    IN  IF ics_raises
        THEN [ics_string |-> <<>>,
              logged |-> entered \o <<[level |-> "error", what |-> "ics: error"]>>]
        ELSE [ics_string |-> Serialize(EventLines(parsed, 1)),
              logged |-> entered \o <<[level |-> "info", what |-> "ics: finished"]>>]

\* a direct call of create_ics_content, as the unit tests make it
CreateIcsContent ==
    /\ route = "create_ics_content"
    /\ hpc = "entered"
    /\ LET r == create_ics_content(items)
       IN  /\ ics_content' = r.ics_string
           /\ log' = log \o r.logged
    /\ hpc' = "responded"
    /\ UNCHANGED <<auth_utils, route, session, users, schedule_text,
                   ics_raises, items,
                   success_count, fail_count, event_index, api_calls,
                   calendar, flashed, response>>
    /\ UNCHANGED <<reads, gettz, history, calls_left, text_schedule, pc, lines,
                   SCHEDULE_TZ, i, current_date_str, indicator_found,
                   parsed_events, date_line, pairings>>

(***************************************************************************)
(* routes.generate_ics: POST /generate_ics.                                *)
(***************************************************************************)
\* what the view functions leave alone in the parser's variables
parser_locals == <<reads, gettz, history, calls_left, lines, SCHEDULE_TZ, i,
                   current_date_str, indicator_found, parsed_events,
                   date_line, pairings>>

\* what generate_ics never touches
submit_state == <<session, users, success_count, fail_count, event_index,
                  api_calls, calendar, flashed>>

\* return body, status
Returned(body, status) == [status |-> status, body |-> body]

\* "if not schedule_text": 400
generate_ics_empty_text ==
    /\ route = "generate_ics"
    /\ hpc = "entered"
    /\ schedule_text = <<>>
    /\ log' = log \o <<[level |-> "warning", what |-> "generate_ics: entered"],
                       [level |-> "error", what |-> "generate_ics: empty text"]>>
    /\ response' = Returned("Please paste schedule text.", 400)
    /\ hpc' = "responded"
    /\ UNCHANGED <<auth_utils, route, schedule_text, ics_raises,
                   items, ics_content,
                   submit_state, parser_locals, text_schedule, pc>>

\* parsed_events = parse_schedule_text(schedule_text): the call
generate_ics_parse ==
    /\ route = "generate_ics"
    /\ hpc = "entered"
    /\ schedule_text # <<>>
    /\ log' = log \o <<[level |-> "warning", what |-> "generate_ics: entered"],
                       [level |-> "info", what |-> "generate_ics: received text"]>>
    /\ text_schedule' = schedule_text
    /\ pc' = "start"
    /\ hpc' = "parsing"
    /\ UNCHANGED <<auth_utils, route, schedule_text, ics_raises,
                   items, ics_content,
                   submit_state, response, parser_locals>>

\* mutant: a parse with no event goes on to create_ics_content
generate_ics_parsed_no_check ==
    /\ route = "generate_ics"
    /\ hpc = "parsing"
    /\ pc \in {"done", "raised"}
    /\ IF pc = "raised"
       THEN /\ log' = Logged("error", "generate_ics: parsing error")
            /\ response' = Returned("Server error during parsing.", 500)
            /\ hpc' = "responded"
       ELSE /\ log' = Logged("info", "generate_ics: parser returned")
            /\ hpc' = "serialize"
            /\ UNCHANGED response
    /\ UNCHANGED <<auth_utils, route, schedule_text, ics_raises,
                   items, ics_content,
                   submit_state, parser_locals, text_schedule, pc>>

\* the call of the parser has ended: an exception is a 500, no event a 400
generate_ics_parsed ==
    /\ route = "generate_ics"
    /\ hpc = "parsing"
    /\ pc \in {"done", "raised"}
    /\ IF pc = "raised"
       THEN /\ log' = Logged("error", "generate_ics: parsing error")
            /\ response' = Returned("Server error during parsing.", 500)
            /\ hpc' = "responded"
       ELSE IF parsed_events = <<>>
       THEN /\ log' = log \o
                <<[level |-> "info", what |-> "generate_ics: parser returned"],
                  [level |-> "warning", what |-> "generate_ics: no events"]>>
            /\ response' = Returned("Could not parse any valid events from the text provided. Please check the format.", 400)
            /\ hpc' = "responded"
       ELSE /\ log' = Logged("info", "generate_ics: parser returned")
            /\ hpc' = "serialize"
            /\ UNCHANGED response
    /\ UNCHANGED <<auth_utils, route, schedule_text, ics_raises,
                   items, ics_content,
                   submit_state, parser_locals, text_schedule, pc>>

\* mutant: the length of the content is not looked at
TooShort_never(content) == FALSE

\* not ics_content or len(ics_content) < 50
TooShort(content) == content = <<>> \/ len(content) < 50

\* ics_content = create_ics_content(parsed_events), then the response
generate_ics_serialize ==
    /\ route = "generate_ics"
    /\ hpc = "serialize"
    /\ LET r == create_ics_content(parsed_events)
       IN  /\ ics_content' = r.ics_string
           /\ IF TooShort(r.ics_string)
              THEN /\ log' = log \o r.logged \o
                       <<[level |-> "info", what |-> "generate_ics: content length"],
                         [level |-> "error", what |-> "generate_ics: short content"]>>
                   /\ response' = Returned("Failed to generate valid ICS content.", 500)
              ELSE /\ log' = log \o r.logged \o
                       <<[level |-> "info", what |-> "generate_ics: content length"],
                         [level |-> "info", what |-> "generate_ics: sending"]>>
                   /\ response' = [status |-> 200,
                                   body |-> r.ics_string,
                                   mimetype |-> "text/calendar",
                                   disposition |-> "attachment; filename=schedule.ics"]
    /\ hpc' = "responded"
    /\ UNCHANGED <<auth_utils, route, schedule_text, ics_raises, items,
                   submit_state, parser_locals, text_schedule, pc>>

(***************************************************************************)
(* routes.submit_to_google: POST /submit_to_google.                        *)
(***************************************************************************)
\* User.query.filter_by(google_id=google_id).first(): the place of the row
\* in the table, 0 for None
query_first(table, google_id) ==
    IF \E k \in 1..Len(table) : table[k].google_id = google_id
    THEN CHOOSE k \in 1..Len(table) :
             /\ table[k].google_id = google_id
             /\ \A j \in 1..(k - 1) : table[j].google_id # google_id
    ELSE 0

\* what submit_to_google never touches
ics_state == <<ics_raises, items, ics_content>>

\* flash(message, category), the counts the message quotes included
Flashed(message, category) ==
    Append(flashed, [message |-> message, category |-> category])

\* redirect(url_for('index'))
RedirectIndex == [status |-> 302, location |-> "index"]

\* str(tzinfo): the repr of the dateutil zone object, not the zone's name
str_tzinfo(tzinfo) ==
    IF tzinfo = "tzlocal" THEN <<"tzlocal()">>
    ELSE <<"tzfile('/usr/share/zoneinfo/", tzinfo, "')">>

\* the body of events().insert for event_data
event_resource(event_data) ==
    [summary |-> event_data.summary,
     start   |-> [dateTime |-> event_data.start_dt,
                  timeZone |-> str_tzinfo(event_data.start_dt.tzinfo)],
     end     |-> [dateTime |-> event_data.end_dt,
                  timeZone |-> str_tzinfo(event_data.end_dt.tzinfo)]]

\* "if not google_id"
submit_no_session ==
    /\ route = "submit_to_google"
    /\ hpc = "entered"
    /\ session = "None"
    /\ log' = Logged("info", "submit_to_google: entered")
    /\ flashed' = Flashed("You must be logged in to post to Google Calendar.",
                          "warning")
    /\ response' = RedirectIndex
    /\ hpc' = "responded"
    /\ UNCHANGED <<auth_utils, route, session, users,
                   schedule_text, success_count,
                   fail_count, event_index, api_calls, calendar, ics_state,
                   parser_locals, text_schedule, pc>>

\* "if not user": the session is emptied
submit_no_user ==
    /\ route = "submit_to_google"
    /\ hpc = "entered"
    /\ session # "None"
    /\ query_first(users, session) = 0
    /\ log' = Logged("info", "submit_to_google: entered")
    /\ flashed' = Flashed("Logged in user not found in database. Please log in again.",
                          "danger")
    /\ session' = "None"
    /\ response' = RedirectIndex
    /\ hpc' = "responded"
    /\ UNCHANGED <<auth_utils, route, users, schedule_text, success_count,
                   fail_count, event_index, api_calls, calendar, ics_state,
                   parser_locals, text_schedule, pc>>

\* "if not user.google_refresh_token"
submit_no_token ==
    /\ route = "submit_to_google"
    /\ hpc = "entered"
    /\ session # "None"
    /\ query_first(users, session) # 0
    /\ users[query_first(users, session)].google_refresh_token = "None"
    /\ log' = Logged("info", "submit_to_google: entered")
    /\ flashed' = Flashed("Missing Google permission (refresh token) to access calendar offline. Please log in again, ensuring you grant calendar access.",
                          "danger")
    /\ response' = RedirectIndex
    /\ hpc' = "responded"
    /\ UNCHANGED <<auth_utils, route, session, users,
                   schedule_text, success_count,
                   fail_count, event_index, api_calls, calendar, ics_state,
                   parser_locals, text_schedule, pc>>

\* mutant: the checks of the session and of the user are not made
Authenticated_unchecked == TRUE

\* the three authentication checks have passed
Authenticated ==
    /\ session # "None"
    /\ query_first(users, session) # 0
    /\ users[query_first(users, session)].google_refresh_token # "None"

\* "if not schedule_text"
submit_no_text ==
    /\ route = "submit_to_google"
    /\ hpc = "entered"
    /\ Authenticated
    /\ schedule_text = <<>>
    /\ log' = Logged("info", "submit_to_google: entered")
    /\ flashed' = Flashed("No schedule text was submitted.", "warning")
    /\ response' = RedirectIndex
    /\ hpc' = "responded"
    /\ UNCHANGED <<auth_utils, route, session, users,
                   schedule_text, success_count,
                   fail_count, event_index, api_calls, calendar, ics_state,
                   parser_locals, text_schedule, pc>>

\* parsed_events = parse_schedule_text(schedule_text): the call
submit_parse ==
    /\ route = "submit_to_google"
    /\ hpc = "entered"
    /\ Authenticated
    /\ schedule_text # <<>>
    /\ log' = log \o <<[level |-> "info", what |-> "submit_to_google: entered"],
                       [level |-> "info", what |-> "submit_to_google: received text"]>>
    /\ text_schedule' = schedule_text
    /\ pc' = "start"
    /\ hpc' = "parsing"
    /\ UNCHANGED <<auth_utils, route, session, users,
                   schedule_text, success_count,
                   fail_count, event_index, api_calls, calendar, flashed,
                   response, ics_state, parser_locals>>

\* mutant: a parse with no event goes on to the refresh of the credentials
submit_parsed_no_check ==
    /\ route = "submit_to_google"
    /\ hpc = "parsing"
    /\ pc \in {"done", "raised"}
    /\ IF pc = "raised"
       THEN /\ log' = Logged("error", "submit_to_google: parsing error")
            /\ flashed' = Flashed("An error occurred while parsing the schedule.",
                                  "danger")
            /\ response' = RedirectIndex
            /\ hpc' = "responded"
            /\ UNCHANGED <<success_count, fail_count>>
       ELSE /\ log' = Logged("info", "submit_to_google: parser returned")
            /\ success_count' = 0
            /\ fail_count' = 0
            /\ hpc' = "refresh"
            /\ UNCHANGED <<flashed, response>>
    /\ UNCHANGED <<auth_utils, route, session, users,
                   schedule_text, event_index,
                   api_calls, calendar, ics_state, parser_locals,
                   text_schedule, pc>>

\* the call of the parser has ended: an exception or no event is a redirect
submit_parsed ==
    /\ route = "submit_to_google"
    /\ hpc = "parsing"
    /\ pc \in {"done", "raised"}
    /\ IF pc = "raised"
       THEN /\ log' = Logged("error", "submit_to_google: parsing error")
            /\ flashed' = Flashed("An error occurred while parsing the schedule.",
                                  "danger")
            /\ response' = RedirectIndex
            /\ hpc' = "responded"
            /\ UNCHANGED <<success_count, fail_count>>
       ELSE IF parsed_events = <<>>
       THEN /\ log' = Logged("info", "submit_to_google: parser returned")
            /\ flashed' = Flashed("Could not parse any valid events from the text provided. Please check the format.",
                                  "warning")
            /\ response' = RedirectIndex
            /\ hpc' = "responded"
            /\ UNCHANGED <<success_count, fail_count>>
       ELSE /\ log' = Logged("info", "submit_to_google: parser returned")
            /\ success_count' = 0
            /\ fail_count' = 0
            /\ hpc' = "refresh"
            /\ UNCHANGED <<flashed, response>>
    /\ UNCHANGED <<auth_utils, route, session, users,
                   schedule_text, event_index,
                   api_calls, calendar, ics_state, parser_locals,
                   text_schedule, pc>>

\* what Google answers to credentials.refresh
RefreshOutcomes == {"ok", "RefreshError", "Exception"}

\* Credentials(...) and credentials.refresh(auth_req)
submit_refresh ==
    /\ route = "submit_to_google"
    /\ hpc = "refresh"
    /\ api_calls' = Append(api_calls, [call |-> "refresh"])
    /\ \E outcome \in RefreshOutcomes :
        CASE outcome = "ok" ->
                /\ log' = Logged("info", "submit_to_google: refreshed")
                /\ hpc' = "build"
                /\ UNCHANGED <<session, flashed, response>>
          [] outcome = "RefreshError" ->
                /\ log' = Logged("error", "submit_to_google: refresh failed")
                /\ session' = "None"
                /\ flashed' = Flashed("Your Google authorization has expired or was revoked. Please log in again.",
                                      "danger")
                /\ response' = RedirectIndex
                /\ hpc' = "responded"
          [] outcome = "Exception" ->
                /\ log' = Logged("error", "submit_to_google: unexpected error")
                /\ flashed' = Flashed("An unexpected error occurred while submitting to Google Calendar.",
                                      "danger")
                /\ response' = RedirectIndex
                /\ hpc' = "responded"
                /\ UNCHANGED session
    /\ UNCHANGED <<auth_utils, route, users, schedule_text,
                   success_count, fail_count,
                   event_index, calendar, ics_state, parser_locals,
                   text_schedule, pc>>

\* service = build('calendar', 'v3', ...), which fetches the API's description
submit_build ==
    /\ route = "submit_to_google"
    /\ hpc = "build"
    /\ api_calls' = Append(api_calls, [call |-> "build"])
    /\ \E outcome \in {"ok", "Exception"} :
        IF outcome = "ok"
        THEN /\ hpc' = "insert"
             /\ event_index' = 0
             /\ UNCHANGED <<log, flashed, response>>
        ELSE /\ log' = Logged("error", "submit_to_google: unexpected error")
             /\ flashed' = Flashed("An unexpected error occurred while submitting to Google Calendar.",
                                   "danger")
             /\ response' = RedirectIndex
             /\ hpc' = "responded"
             /\ UNCHANGED event_index
    /\ UNCHANGED <<auth_utils, route, session, users,
                   schedule_text, success_count,
                   fail_count, calendar, ics_state, parser_locals,
                   text_schedule, pc>>

\* what Google answers to events().insert(...).execute()
InsertOutcomes == {"ok", "HttpError", "Exception"}

\* mutant: the first insertion that fails ends the loop
submit_insert_stops_at_failure ==
    /\ route = "submit_to_google"
    /\ hpc = "insert"
    /\ event_index < Len(parsed_events)
    /\ LET event_data == parsed_events[event_index + 1]
       IN  IF IsNaive(event_data.start_dt) \/ IsNaive(event_data.end_dt)
           THEN /\ log' = Logged("warning", "submit_to_google: naive datetime")
                /\ fail_count' = fail_count + 1
                /\ event_index' = event_index + 1
                /\ UNCHANGED <<success_count, api_calls, calendar>>
           ELSE
           /\ api_calls' = Append(api_calls, [call |-> "insert",
                                              event |-> event_index + 1])
           /\ \E outcome \in InsertOutcomes :
               IF outcome = "ok"
               THEN /\ calendar' = Append(calendar, event_resource(event_data))
                    /\ log' = log \o
                        <<[level |-> "debug", what |-> "submit_to_google: inserting"],
                          [level |-> "info", what |-> "submit_to_google: created"]>>
                    /\ success_count' = success_count + 1
                    /\ event_index' = event_index + 1
                    /\ UNCHANGED fail_count
               ELSE /\ log' = log \o
                        <<[level |-> "debug", what |-> "submit_to_google: inserting"],
                          [level |-> "error", what |-> "submit_to_google: insert failed"]>>
                    /\ fail_count' = fail_count + 1
                    /\ event_index' = Len(parsed_events)
                    /\ UNCHANGED <<success_count, calendar>>
    /\ UNCHANGED <<auth_utils, route, hpc, session, users,
                   schedule_text, flashed,
                   response, ics_state, parser_locals, text_schedule, pc>>

\* one turn of "for event_data in parsed_events"
submit_insert ==
    /\ route = "submit_to_google"
    /\ hpc = "insert"
    /\ event_index < Len(parsed_events)
    /\ LET event_data == parsed_events[event_index + 1]
       IN  IF IsNaive(event_data.start_dt) \/ IsNaive(event_data.end_dt)
           THEN /\ log' = Logged("warning", "submit_to_google: naive datetime")
                /\ fail_count' = fail_count + 1
                /\ event_index' = event_index + 1
                /\ UNCHANGED <<success_count, api_calls, calendar>>
           ELSE
           /\ api_calls' = Append(api_calls, [call |-> "insert",
                                              event |-> event_index + 1])
           /\ \E outcome \in InsertOutcomes :
               IF outcome = "ok"
               THEN /\ calendar' = Append(calendar, event_resource(event_data))
                    /\ log' = log \o
                        <<[level |-> "debug", what |-> "submit_to_google: inserting"],
                          [level |-> "info", what |-> "submit_to_google: created"]>>
                    /\ success_count' = success_count + 1
                    /\ event_index' = event_index + 1
                    /\ UNCHANGED fail_count
               ELSE /\ log' = log \o
                        <<[level |-> "debug", what |-> "submit_to_google: inserting"],
                          [level |-> "error", what |-> "submit_to_google: insert failed"]>>
                    /\ fail_count' = fail_count + 1
                    /\ event_index' = event_index + 1
                    /\ UNCHANGED <<success_count, calendar>>
    /\ UNCHANGED <<auth_utils, route, hpc, session, users,
                   schedule_text, flashed,
                   response, ics_state, parser_locals, text_schedule, pc>>

\* the message flashed for these counts
ResultMessage(success, fail) ==
    IF success > 0 /\ fail = 0
    THEN [message |-> "Successfully posted", counts |-> <<success>>,
          category |-> "success"]
    ELSE IF success > 0 /\ fail > 0
    THEN [message |-> "Posted some, failed to post others",
          counts |-> <<success, fail>>, category |-> "warning"]
    ELSE IF fail > 0
    THEN [message |-> "Failed to post any events", counts |-> <<fail>>,
          category |-> "danger"]
    ELSE [message |-> "No events were posted", counts |-> <<>>,
          category |-> "warning"]

\* the loop has ended: one message for the counts, then the redirect
submit_flash ==
    /\ route = "submit_to_google"
    /\ hpc = "insert"
    /\ event_index = Len(parsed_events)
    /\ flashed' = Append(flashed, ResultMessage(success_count, fail_count))
    /\ response' = RedirectIndex
    /\ hpc' = "responded"
    /\ UNCHANGED <<auth_utils, route, session, users,
                   schedule_text, success_count,
                   fail_count, event_index, api_calls, calendar, ics_state,
                   parser_locals, text_schedule, pc, log>>

(***************************************************************************)
(* auth.callback, auth.logout and routes.index.  Two browsers may have a   *)
(* callback served at the same time: browser 1 is the one of the other     *)
(* requests, browser 2 is the rival.                                       *)
(***************************************************************************)
Browsers == {1, 2}

\* what oauth.google.authorize_access_token() answers: a token with or
\* without a refresh_token, or an exception
TokenOutcomes == {"refresh_token", "no_refresh_token", "Exception"}

\* what oauth.google.userinfo() answers: the 'sub' of an account, a
\* dictionary without 'sub', or an exception
UserInfoOutcomes == {"g1", "g2", "no_sub", "Exception"}

\* the request of browser b as one record
Request(b) ==
    IF b = 1
    THEN [hpc |-> IF route = "callback" THEN hpc ELSE "none",
          session |-> session, flashed |-> flashed, response |-> response,
          locals |-> callback]
    ELSE rival

\* the request of browser b becomes c
Becomes(b, c) ==
    IF b = 1
    THEN /\ hpc' = c.hpc
         /\ session' = c.session
         /\ flashed' = c.flashed
         /\ response' = c.response
         /\ callback' = c.locals
         /\ UNCHANGED rival
    ELSE /\ rival' = c
         /\ UNCHANGED <<hpc, session, flashed, response, callback>>

\* what a callback leaves alone besides the request and the table
callback_frame ==
    <<route, schedule_text, ics_state, success_count, fail_count,
      event_index, api_calls, calendar, creds, returned, parser_locals,
      text_schedule, pc>>

\* mutant: the handler of the exception logs the user in all the same
CallbackFailed_logs_in(c) ==
    [c EXCEPT !.hpc = "responded",
              !.session = c.locals.google_id,
              !.flashed = Append(c.flashed,
                  [message |-> "Authentication failed during callback.",
                   category |-> "danger"]),
              !.response = RedirectIndex]

\* "except Exception": the message, then the redirect of line 102
CallbackFailed(c) ==
    [c EXCEPT !.hpc = "responded",
              !.flashed = Append(c.flashed,
                  [message |-> "Authentication failed during callback.",
                   category |-> "danger"]),
              !.response = RedirectIndex]

\* token = authorize_access_token(); user_info = userinfo(); the details
callback_fetch ==
    \E b \in Browsers :
        /\ Request(b).hpc = "entered"
        /\ \E token \in TokenOutcomes, user_info \in UserInfoOutcomes :
            LET c == Request(b)
            IN  IF token = "Exception" \/ user_info = "Exception"
                THEN /\ Becomes(b, CallbackFailed(c))
                     /\ log' = log \o
                         <<[level |-> "info", what |-> "callback: entered"],
                           [level |-> "error", what |-> "callback: error"]>>
                ELSE IF user_info = "no_sub"
                THEN /\ Becomes(b,
                         [c EXCEPT !.hpc = "responded",
                                   !.flashed = Append(c.flashed,
                                       [message |-> "Error fetching user info from Google.",
                                        category |-> "danger"]),
                                   !.response = RedirectIndex])
                     /\ log' = log \o
                         <<[level |-> "info", what |-> "callback: entered"],
                           [level |-> "info", what |-> "callback: token"],
                           [level |-> "error", what |-> "callback: no user info"]>>
                ELSE /\ Becomes(b,
                         [c EXCEPT !.hpc = "fetched",
                                   !.locals = [refresh_token |->
                                                   IF token = "refresh_token"
                                                   THEN "token" ELSE "None",
                                               google_id |-> user_info,
                                               user |-> 0]])
                     /\ log' = log \o
                         <<[level |-> "info", what |-> "callback: entered"],
                           [level |-> "info", what |-> "callback: token"],
                           [level |-> "info", what |-> "callback: user info"]>>
        /\ UNCHANGED <<users, callback_frame>>

\* user = User.query.filter_by(google_id=google_id).first()
callback_query ==
    \E b \in Browsers :
        /\ Request(b).hpc = "fetched"
        /\ LET c == Request(b)
           IN  Becomes(b, [c EXCEPT !.hpc = "queried",
                                    !.locals.user =
                                        query_first(users, c.locals.google_id)])
        /\ UNCHANGED <<users, log, callback_frame>>

\* mutant: the refresh token of the response is stored whatever it is
UpdatedToken_always(stored, refresh_token) == refresh_token

\* "if refresh_token: user.google_refresh_token = refresh_token"
UpdatedToken(stored, refresh_token) ==
    IF refresh_token # "None" THEN refresh_token ELSE stored

\* mutant: the table has no unique constraint
UniqueViolation_unchecked(table, row) == FALSE

\* google_id is unique=True: the database refuses a second row with it
UniqueViolation(table, row) ==
    \E k \in 1..Len(table) : table[k].google_id = row.google_id

\* session.clear(); session['google_id'] = user.google_id; flash(...)
LoggedIn(c) ==
    [c EXCEPT !.hpc = "responded",
              !.session = c.locals.google_id,
              !.flashed = Append(c.flashed,
                  [message |-> "Successfully logged in", category |-> "success"]),
              !.response = RedirectIndex]

\* the user found is updated, or a new user added; db.session.commit();
\* then the session is set, or the exception of the commit handled
callback_commit ==
    \E b \in Browsers :
        /\ Request(b).hpc = "queried"
        /\ LET c == Request(b)
               new_user == [google_id |-> c.locals.google_id,
                            google_refresh_token |-> c.locals.refresh_token]
           IN  IF c.locals.user # 0
               THEN /\ users' = [users EXCEPT
                          ![c.locals.user].google_refresh_token =
                              UpdatedToken(@, c.locals.refresh_token)]
                    /\ Becomes(b, LoggedIn(c))
                    /\ log' = log \o
                        <<[level |-> "info", what |-> "callback: existing user"],
                          [level |-> "info", what |-> "callback: session"]>>
               ELSE IF UniqueViolation(users, new_user)
               THEN /\ Becomes(b, CallbackFailed(c))
                    /\ log' = Logged("error", "callback: error")
                    /\ UNCHANGED users
               ELSE /\ users' = Append(users, new_user)
                    /\ Becomes(b, LoggedIn(c))
                    /\ log' = log \o
                        <<[level |-> "info", what |-> "callback: new user"],
                          [level |-> "info", what |-> "callback: session"]>>
        /\ UNCHANGED callback_frame

\* what logout and index leave alone
page_frame ==
    <<route, users, schedule_text, ics_state, success_count, fail_count,
      event_index, api_calls, calendar, auth_utils, parser_locals,
      text_schedule, pc>>

\* auth.logout: session.pop('google_id', None), the message, the redirect
logout ==
    /\ route = "logout"
    /\ hpc = "entered"
    /\ session' = "None"
    /\ log' = IF session # "None" THEN Logged("info", "logout")
              ELSE Logged("warning", "logout: no user in session")
    /\ flashed' = Flashed("You have been logged out successfully.", "info")
    /\ response' = RedirectIndex
    /\ hpc' = "responded"
    /\ UNCHANGED page_frame

\* routes.index: a google_id with no row in the table is removed from the
\* session; the page is rendered
index ==
    /\ route = "index"
    /\ hpc = "entered"
    /\ IF session # "None" /\ query_first(users, session) = 0
       THEN /\ session' = "None"
            /\ log' = log \o
                <<[level |-> "debug", what |-> "index: entered"],
                  [level |-> "warning", what |-> "index: user not found"]>>
       ELSE /\ log' = Logged("debug", "index: entered")
            /\ UNCHANGED session
    /\ response' = [status |-> 200, body |-> "index.html"]
    /\ hpc' = "responded"
    /\ UNCHANGED <<flashed, page_frame>>

(***************************************************************************)
(* The requests one browser sends.                                         *)
(***************************************************************************)
\* the view functions of the two forms
Routes == {"submit_to_google", "generate_ics"}

\* what the textarea holds when a form is posted
FormTexts ==
    { <<>>,
      FreeText,
      Join(<<DateToken(4, 15, 2024) \o Sun, <<"2", "1">>>>),
      Join(<<DateToken(4, 20, 2024) \o Sun, <<"0", "9">>,
             DateToken(4, 22, 2024) \o Sun, <<"1", "4">> \o TEN \o <<"$">>>>) }

\* the pages a browser gets
Pages == {"callback", "logout", "index"}

\* the response was sent; the browser posts one of the forms again or gets
\* one of the pages
NextRequest ==
    /\ route \in Routes \cup Pages
    /\ hpc = "responded"
    /\ calls_left > 0
    /\ calls_left' = calls_left - 1
    /\ \/ \E r \in Routes, t \in FormTexts :
              route' = r /\ schedule_text' = t
       \/ \E r \in Pages : route' = r /\ schedule_text' = <<>>
    /\ callback' = NoCallback
    /\ hpc' = "entered"
    /\ pc' = "idle"
    /\ success_count' = 0
    /\ fail_count' = 0
    /\ event_index' = 0
    /\ api_calls' = <<>>
    /\ flashed' = <<>>
    /\ ics_content' = <<>>
    /\ response' = [status |-> 0]
    /\ UNCHANGED <<creds, returned, rival, session, users, ics_raises, items,
                   calendar, log,
                   reads, gettz, history, text_schedule, lines, SCHEDULE_TZ, i,
                   current_date_str, indicator_found, parsed_events,
                   date_line, pairings>>

\* session.get('google_id'): nobody, a user of the table, a user not in it
Sessions == {"None", "g1", "g2"}

\* the table of User: empty, or one row with or without a refresh token
UserTables ==
    { <<>>,
      <<[google_id |-> "g1", google_refresh_token |-> "token"]>>,
      <<[google_id |-> "g1", google_refresh_token |-> "None"]>> }

\* the state when request r arrives with text t in the form
InitRequest(r, t) ==
    /\ history = <<>>
    /\ text_schedule = <<>>
    /\ pc = "idle"
    /\ lines = <<>>
    /\ SCHEDULE_TZ = "unset"
    /\ i = 0
    /\ current_date_str = None
    /\ indicator_found = FALSE
    /\ parsed_events = <<>>
    /\ log = <<>>
    /\ date_line = -1
    /\ pairings = <<>>
    /\ reads = <<>>
    /\ route = r
    /\ hpc = "entered"
    /\ schedule_text = t
    /\ ics_content = <<>>
    /\ success_count = 0
    /\ fail_count = 0
    /\ event_index = 0
    /\ api_calls = <<>>
    /\ calendar = <<>>
    /\ flashed = <<>>
    /\ response = [status |-> 0]
    /\ returned = [exc |-> "unset"]
    /\ callback = NoCallback

\* a datetime of the tests
TestTime(d, h, tzinfo) ==
    [year |-> 2024, month |-> 4, day |-> d, hour |-> h, tzinfo |-> tzinfo]

\* the dictionaries of tests/test_utils.py, and two more with one datetime
\* naive or missing
IcsItems ==
    { [summary |-> <<"Test Shift">>, date_str |-> DateToken(4, 15, 2024),
       start_dt |-> TestTime(15, 21, SCHEDULE_TZ_NAME),
       end_dt |-> TestTime(16, 5, SCHEDULE_TZ_NAME)],
      [date_str |-> DateToken(4, 17, 2024),
       start_dt |-> TestTime(17, 9, SCHEDULE_TZ_NAME),
       end_dt |-> TestTime(17, 17, SCHEDULE_TZ_NAME)],
      [summary |-> <<"Incomplete">>, date_str |-> DateToken(4, 18, 2024),
       start_dt |-> TestTime(18, 9, SCHEDULE_TZ_NAME)],
      [summary |-> <<"Incomplete">>, date_str |-> DateToken(4, 18, 2024),
       end_dt |-> TestTime(18, 17, SCHEDULE_TZ_NAME)],
      [summary |-> <<"Naive">>, date_str |-> DateToken(4, 19, 2024),
       start_dt |-> TestTime(19, 9, "naive"),
       end_dt |-> TestTime(19, 17, "naive")],
      [summary |-> <<"Naive">>, date_str |-> DateToken(4, 19, 2024),
       start_dt |-> TestTime(19, 9, SCHEDULE_TZ_NAME),
       end_dt |-> TestTime(19, 17, "naive")] }

\* the state before a direct call of create_ics_content(its)
InitIcs(its) ==
    /\ InitRequest("create_ics_content", <<>>)
    /\ items = its
    /\ session = "None"
    /\ users = <<>>
    /\ rival = NoRival
    /\ creds = "None"
    /\ calls_left = 0

(***************************************************************************)
(* utils.insert_event: one event inserted with given credentials.          *)
(***************************************************************************)
\* what Google answers to build('calendar', 'v3', ...), which fetches the
\* description of the API
BuildOutcomes == {"ok", "HttpError", "Exception"}

\* the body of the insertion: no timeZone key
event_body(summary, start_dt_aware, end_dt_aware) ==
    [summary |-> summary,
     start   |-> [dateTime |-> start_dt_aware],
     end     |-> [dateTime |-> end_dt_aware]]

\* one call made to Google and its answer
Called(call, outcome) == [call |-> call, outcome |-> outcome]

\* insert_event(cr, event_details) when Google answers build_outcome to the
\* build and insert_outcome to the insertion: the value returned or the
\* exception that leaves the function, the calls made and the event created
insert_event(cr, event_details, build_outcome, insert_outcome) ==
    IF cr = "None"
    THEN [exc |-> "", value |-> FALSE, calls |-> <<>>, created |-> <<>>]
    ELSE IF \/ Absent(event_details, "summary")
            \/ Absent(event_details, "start_dt")
            \/ Absent(event_details, "end_dt")
    THEN [exc |-> "", value |-> FALSE, calls |-> <<>>, created |-> <<>>]
    ELSE IF IsNaive(event_details.start_dt) \/ IsNaive(event_details.end_dt)
    THEN [exc |-> "", value |-> FALSE, calls |-> <<>>, created |-> <<>>]
    ELSE IF build_outcome = "HttpError"
    \* "except HttpError" reads event_body, a local not yet bound
    THEN [exc |-> "UnboundLocalError",
          calls |-> <<Called("build", build_outcome)>>, created |-> <<>>]
    ELSE IF build_outcome = "Exception"
    \* "except Exception" reads event_body within try / except NameError
    THEN [exc |-> "", value |-> FALSE,
          calls |-> <<Called("build", build_outcome)>>, created |-> <<>>]
    ELSE IF insert_outcome = "ok"
    THEN [exc |-> "", value |-> TRUE,
          calls |-> <<Called("build", "ok"), Called("insert", "ok")>>,
          created |-> <<event_body(event_details.summary,
                                   event_details.start_dt,
                                   event_details.end_dt)>>]
    ELSE [exc |-> "", value |-> FALSE,
          calls |-> <<Called("build", "ok"), Called("insert", insert_outcome)>>,
          created |-> <<>>]

\* a direct call of insert_event(creds, items[1])
InsertEvent ==
    /\ route = "insert_event"
    /\ hpc = "entered"
    /\ \E build_outcome \in BuildOutcomes, insert_outcome \in InsertOutcomes :
        LET r == insert_event(creds, items[1], build_outcome, insert_outcome)
        IN  /\ returned' = [exc |-> r.exc,
                            value |-> IF r.exc = "" THEN r.value ELSE FALSE]
            /\ api_calls' = r.calls
            /\ calendar' = calendar \o r.created
            /\ log' = Logged(IF r.exc = "" /\ r.value THEN "info" ELSE "error",
                             "insert_event")
    /\ hpc' = "responded"
    /\ UNCHANGED <<creds, callback, rival, route, session, users,
                   schedule_text, ics_state, success_count, fail_count,
                   event_index, flashed, response, parser_locals,
                   text_schedule, pc>>

\* the state before a direct call of insert_event(cr, event_details)
InitInsert(cr, event_details) ==
    /\ InitRequest("insert_event", <<>>)
    /\ items = <<event_details>>
    /\ creds = cr
    /\ session = "None"
    /\ users = <<>>
    /\ rival = NoRival
    /\ calls_left = 0

\* the requests every specification serves: each form posted with each text
\* by each kind of visitor, and one call of create_ics_content per item
WebScenarios ==
    /\ gettz = SCHEDULE_TZ_NAME
    /\ ics_raises = FALSE
    /\ \/ /\ \/ \E r \in Routes, t \in FormTexts : InitRequest(r, t)
             \/ \E r \in Pages : InitRequest(r, <<>>)
          /\ \E s \in Sessions : session = s
          /\ \E u \in UserTables : users = u
          /\ items = <<>>
          /\ rival = NoRival
          /\ creds = "None"
          /\ calls_left = 1
       \/ \E item \in IcsItems : InitIcs(<<item>>)
       \/ \E cr \in {"None", "creds"}, item \in IcsItems : InitInsert(cr, item)

Next ==
    \/ Start
    \/ OuterBlank
    \/ OuterNoDate
    \/ OuterDate
    \/ InnerBlank
    \/ InnerDayOff
    \/ InnerShift
    \/ InnerNextDate
    \/ InnerOtherText
    \/ InnerEnd
    \/ AfterInner
    \/ Finish
    \/ Again
    \/ CreateIcsContent
    \/ InsertEvent
    \/ generate_ics_empty_text
    \/ generate_ics_parse
    \/ generate_ics_parsed
    \/ generate_ics_serialize
    \/ submit_no_session
    \/ submit_no_user
    \/ submit_no_token
    \/ submit_no_text
    \/ submit_parse
    \/ submit_parsed
    \/ submit_refresh
    \/ submit_build
    \/ submit_insert
    \/ submit_flash
    \/ callback_fetch
    \/ callback_query
    \/ callback_commit
    \/ logout
    \/ index
    \/ NextRequest

\* one call for each text of a family, two for each text of the unit tests,
\* and the requests of WebScenarios
Calls(family) ==
    \/ \E t \in family : InitCall(t) /\ calls_left = 0
    \/ \E t \in Scenarios : InitCall(t) /\ calls_left = 1
    \/ WebScenarios

Init == Calls(Texts)

InitShift == Calls(ShiftTexts)

InitEntries == Calls(EntryTexts)

Spec == Init /\ [][Next]_vars

SpecShift == InitShift /\ [][Next]_vars

InitMalformed == Calls(MalformedTexts)

SpecMalformed == InitMalformed /\ [][Next]_vars

SpecEntries == InitEntries /\ [][Next]_vars

InitAgain ==
    \/ \E t \in AgainTexts : InitCall(t) /\ calls_left = MaxCalls - 1
    \/ \E t \in Scenarios : InitCall(t) /\ calls_left = 1
    \/ WebScenarios

SpecAgain == InitAgain /\ [][Next]_vars

(***************************************************************************)
(* Vocabulary of the properties: what the input says, read from the lines  *)
(* without the two patterns' match on the indicator.                       *)
(***************************************************************************)
IsNonBlank(l) == l # <<>>

StrippedLines == [k \in 1..Len(lines) |-> strip(lines[k])]

NonBlankLines == SelectSeq(StrippedLines, IsNonBlank)

\* a date line: a line containing a token MM/DD/YYYY
IsDateLine(l) == \E p \in 1..Len(l) : DateAt(l, p)

DateOf(l) == date_pattern_search(l)

\* the token names a day of the calendar
RealDate(tok) ==
    LET m == int(SubSeq(tok, 1, 2))
        d == int(SubSeq(tok, 4, 5))
        y == int(SubSeq(tok, 7, 10))
    IN  m \in 1..12 /\ y \in 1..9999 /\ d \in 1..DaysInMonth(y, m)

\* the hours 0..23 written with one or two digits
ValidHourTexts ==
    {Format02d(h) : h \in 0..23} \cup {<<Digits[h + 1]>> : h \in 0..9}

\* the work-shift indicator for the hour text ht
HourLine(ht, ten, ot) ==
    ht \o (IF ten THEN TEN ELSE <<>>) \o (IF ot THEN <<"$">> ELSE <<>>)

\* the datetime: the date of the token at h:00 in zone tz
At(tok, h, tz) ==
    [year |-> int(SubSeq(tok, 7, 10)), month |-> int(SubSeq(tok, 1, 2)),
     day |-> int(SubSeq(tok, 4, 5)), hour |-> h, tzinfo |-> tz]

RECURSIVE DaysBeforeMonth(_, _)
DaysBeforeMonth(y, m) ==
    IF m = 1 THEN 0 ELSE DaysBeforeMonth(y, m - 1) + DaysInMonth(y, m - 1)

\* hours from 0001-01-01 00:00 to dt on the wall clock
Stamp(dt) ==
    LET y == dt.year - 1
    IN  24 * (365 * y + (y \div 4) - (y \div 100) + (y \div 400)
              + DaysBeforeMonth(dt.year, dt.month) + (dt.day - 1)) + dt.hour

\* the instant dur hours after the token's date at h:00 is a datetime
EndsInRange(tok, h, dur) ==
    Stamp(At(tok, h, "naive")) + dur
        < Stamp([year |-> 10000, month |-> 1, day |-> 1, hour |-> 0])

\* the input is a date line for a day of the calendar, then the line ind
DateThen(ind) ==
    /\ Len(lines) = 2
    /\ Line(1) = ind
    /\ IsDateLine(Line(0))
    /\ RealDate(DateOf(Line(0)))

(***************************************************************************)
(* C1: when a date line D1 is followed, with only blank lines between, by  *)
(* a date line D2 and D2 by a valid work-shift indicator, the result is    *)
(* exactly one event, for D2's date at the indicator's hour; D1 gives      *)
(* none.  (Stated for every D2, also one that begins with its date.)       *)
(***************************************************************************)
C1_SecondDateOnly ==
    pc = "done" =>
        \A ht \in ValidHourTexts :
            LET nb == NonBlankLines
            IN  ( /\ Len(nb) = 3
                  /\ IsDateLine(nb[1])
                  /\ IsDateLine(nb[2])
                  /\ RealDate(DateOf(nb[2]))
                  /\ nb[3] = ht )
                => /\ Len(parsed_events) = 1
                   /\ parsed_events[1].date_str = DateOf(nb[2])
                   /\ parsed_events[1].start_dt
                          = At(DateOf(nb[2]), int(ht), SCHEDULE_TZ)

(***************************************************************************)
(* C2: for every hour h in 0..23 written with one or two digits, a date    *)
(* line (for a day of the calendar, the shift ending within the range of   *)
(* datetime) followed by the line h gives exactly one event: start = the   *)
(* date at h:00, end = start + 8 hours, is_overtime = false.               *)
(***************************************************************************)
C2_EightHourShift ==
    pc = "done" =>
        \A ht \in ValidHourTexts :
            ( DateThen(ht) /\ EndsInRange(DateOf(Line(0)), int(ht), 8) )
            => /\ Len(parsed_events) = 1
               /\ parsed_events[1].start_dt
                      = At(DateOf(Line(0)), int(ht), SCHEDULE_TZ)
               /\ Stamp(parsed_events[1].end_dt)
                      = Stamp(parsed_events[1].start_dt) + 8
               /\ parsed_events[1].end_dt.tzinfo = SCHEDULE_TZ
               /\ parsed_events[1].is_overtime = FALSE

\* the shift of 12/31/2024 at 23 has been parsed: it ends in 2025
C2_Witness ==
    /\ pc = "done"
    /\ DateThen(<<"2", "3">>)
    /\ Len(parsed_events) = 1
    /\ parsed_events[1].end_dt.year = 2025

(***************************************************************************)
(* C3: for a work-shift indicator with a valid hour the duration is 10     *)
(* hours if and only if TEN is present (otherwise 8) and is_overtime is    *)
(* true if and only if $ is present, in all four combinations.             *)
(***************************************************************************)
C3_TenAndOvertimeIndependent ==
    pc = "done" =>
        \A ht \in ValidHourTexts : \A ten \in BOOLEAN : \A ot \in BOOLEAN :
            ( /\ DateThen(HourLine(ht, ten, ot))
              /\ EndsInRange(DateOf(Line(0)), int(ht), IF ten THEN 10 ELSE 8) )
            => /\ Len(parsed_events) = 1
               /\ Stamp(parsed_events[1].end_dt) - Stamp(parsed_events[1].start_dt)
                      = (IF ten THEN 10 ELSE 8)
               /\ parsed_events[1].is_overtime = ot

\* the indicator 7TEN$ has been parsed into a 10 hour overtime event
C3_Witness ==
    /\ pc = "done"
    /\ DateThen(<<"7">> \o TEN \o <<"$">>)
    /\ Len(parsed_events) = 1
    /\ parsed_events[1].is_overtime
    /\ Stamp(parsed_events[1].end_dt) - Stamp(parsed_events[1].start_dt) = 10

(***************************************************************************)
(* C4: a date paired with X gives no event and the pairing consumes the    *)
(* date: the pending date is cleared when the X line has been read, no     *)
(* other line is paired with that date, and a date line followed by X and  *)
(* by a valid indicator gives no event at all.                             *)
(***************************************************************************)
C4_DayOffConsumesDate ==
    /\ \A n \in 1..Len(pairings) :
          pairings[n].outcome = "day_off"
          => /\ \A m \in 1..Len(pairings) :
                    m # n => pairings[m].date_line # pairings[n].date_line
             /\ (n = Len(pairings) /\ pc = "after_inner" /\ indicator_found)
                    => (current_date_str = None /\ i = pairings[n].ind_line + 1)
    /\ Len(parsed_events)
          = Cardinality({n \in 1..Len(pairings) : pairings[n].outcome = "event"})
    /\ pc = "done" =>
          \A ht \in ValidHourTexts :
              LET nb == NonBlankLines
              IN  ( /\ Len(nb) = 3
                    /\ IsDateLine(nb[1])
                    /\ nb[2] = <<"X">>
                    /\ nb[3] = ht )
                  => parsed_events = <<>>

\* a date line, X and the indicator 10 have been read: nothing was returned
C4_Witness ==
    /\ pc = "done"
    /\ NonBlankLines = <<DateToken(4, 29, 2024), <<"X">>, <<"1", "0">>>>
    /\ parsed_events = <<>>
    /\ Len(pairings) = 1
    /\ pairings[1].outcome = "day_off"

(***************************************************************************)
(* C5: for every hour h in 0..23 a date line followed by A<h> gives        *)
(* exactly one event: summary "Annual Leave", start = the date at h:00,    *)
(* end = start + 8 hours, is_overtime = false.                             *)
(***************************************************************************)
C5_AnnualLeave ==
    pc = "done" =>
        \A ht \in ValidHourTexts :
            ( /\ DateThen(<<"A", "<">> \o ht \o <<">">>)
              /\ EndsInRange(DateOf(Line(0)), int(ht), 8) )
            => /\ Len(parsed_events) = 1
               /\ parsed_events[1].summary = <<"Annual Leave">>
               /\ parsed_events[1].start_dt
                      = At(DateOf(Line(0)), int(ht), SCHEDULE_TZ)
               /\ Stamp(parsed_events[1].end_dt)
                      = Stamp(parsed_events[1].start_dt) + 8
               /\ parsed_events[1].is_overtime = FALSE

(***************************************************************************)
(* C6: for every hour h in 0..23 a date paired with AOA<h> gives exactly   *)
(* two events, [h, h+8) not overtime then [h+8, h+10) overtime, and a date *)
(* paired with AOB<h> gives exactly two events, [h-2, h) overtime then     *)
(* [h, h+8) not overtime; the first ends where the second starts.          *)
(***************************************************************************)
C6_OvertimeBlocks ==
    pc = "done" =>
        \A ht \in ValidHourTexts :
            LET h0 == Stamp(At(DateOf(Line(0)), int(ht), SCHEDULE_TZ))
            IN  /\ ( /\ DateThen(<<"A", "O", "A", "<">> \o ht \o <<">">>)
                     /\ EndsInRange(DateOf(Line(0)), int(ht), 10) )
                   => /\ Len(parsed_events) = 2
                      /\ Stamp(parsed_events[1].start_dt) = h0
                      /\ Stamp(parsed_events[1].end_dt) = h0 + 8
                      /\ ~parsed_events[1].is_overtime
                      /\ parsed_events[2].start_dt = parsed_events[1].end_dt
                      /\ Stamp(parsed_events[2].end_dt) = h0 + 10
                      /\ parsed_events[2].is_overtime
                /\ ( /\ DateThen(<<"A", "O", "B", "<">> \o ht \o <<">">>)
                     /\ EndsInRange(DateOf(Line(0)), int(ht), 8) )
                   => /\ Len(parsed_events) = 2
                      /\ Stamp(parsed_events[1].start_dt) = h0 - 2
                      /\ Stamp(parsed_events[1].end_dt) = h0
                      /\ parsed_events[1].is_overtime
                      /\ parsed_events[2].start_dt = parsed_events[1].end_dt
                      /\ Stamp(parsed_events[2].end_dt) = h0 + 8
                      /\ ~parsed_events[2].is_overtime

(***************************************************************************)
(* C7: when the indicator line paired with a pending date has an hour      *)
(* outside 0..23, no event is emitted for that date and the pending date   *)
(* is cleared: the scan resumes seeking a date on the following line, and  *)
(* a valid indicator line that comes next is not paired with that date.    *)
(***************************************************************************)
\* a line that begins with two digits naming no hour of the day
InvalidHourLine(l) ==
    /\ Len(l) >= 2
    /\ IsDigit(l[1])
    /\ IsDigit(l[2])
    /\ int(SubSeq(l, 1, 2)) > 23

C7_InvalidHourClearsDate ==
    /\ \A n \in 1..Len(pairings) :
          (pairings[n].ind_line >= 0 /\ InvalidHourLine(Line(pairings[n].ind_line)))
          => /\ pairings[n].outcome = "rejected"
             /\ \A m \in 1..Len(pairings) :
                    m # n => pairings[m].date_line # pairings[n].date_line
             /\ (n = Len(pairings) /\ pc = "after_inner" /\ indicator_found)
                    => (current_date_str = None /\ i = pairings[n].ind_line + 1)
    /\ Len(parsed_events)
          = Cardinality({n \in 1..Len(pairings) : pairings[n].outcome = "event"})
    /\ pc = "done" =>
          \A ht \in ValidHourTexts :
              LET nb == NonBlankLines
              IN  ( /\ Len(nb) = 3
                    /\ IsDateLine(nb[1])
                    /\ InvalidHourLine(nb[2])
                    /\ nb[3] = ht )
                  => parsed_events = <<>>

\* a date line, 99 and the indicator 10 have been read: nothing was returned
C7_Witness ==
    /\ pc = "done"
    /\ NonBlankLines = <<DateToken(4, 29, 2024), <<"9", "9">>, <<"1", "0">>>>
    /\ parsed_events = <<>>
    /\ Len(pairings) = 1
    /\ pairings[1].outcome = "rejected"

(***************************************************************************)
(* C8: parse_schedule_text never raises for malformed content (hours out   *)
(* of range, date tokens that are no calendar date, indicators without a   *)
(* date): the call returns its list, and when every date line is directly  *)
(* followed by an hour line the list holds exactly the events of the valid *)
(* pairs, those before and those after a malformed piece.                  *)
(***************************************************************************)
\* a line made of one or two digits, then TEN or not, then $ or not
IsHourLine(l) ==
    \E nd \in {1, 2} : \E ten \in BOOLEAN : \E ot \in BOOLEAN :
        /\ Len(l) = nd + (IF ten THEN 3 ELSE 0) + (IF ot THEN 1 ELSE 0)
        /\ \A k \in 1..nd : IsDigit(l[k])
        /\ l = HourLine(SubSeq(l, 1, nd), ten, ot)

\* every date line is directly followed by such a line
EveryDatePaired ==
    \A k \in 1..Len(lines) :
        IsDateLine(strip(lines[k]))
        => /\ k < Len(lines)
           /\ IsHourLine(strip(lines[k + 1]))

\* the readings <<ht, ten, ot>> of lines k and k+1 (from 1) as a date of the
\* calendar followed by the valid work-shift indicator HourLine(ht, ten, ot)
\* whose shift ends in range; empty when the lines are no such pair
ValidPair(k) ==
    LET d == strip(lines[k])
        l == IF k < Len(lines) THEN strip(lines[k + 1]) ELSE <<>>
    IN  IF /\ k < Len(lines)
           /\ IsHourLine(l)
           /\ IsDateLine(d)
           /\ RealDate(DateOf(d))
        THEN {r \in ValidHourTexts \X BOOLEAN \X BOOLEAN :
                 /\ l = HourLine(r[1], r[2], r[3])
                 /\ EndsInRange(DateOf(d), int(r[1]), IF r[2] THEN 10 ELSE 8)}
        ELSE {}

\* event e is the event of the pair at line k read as r
EventOfPair(e, k, r) ==
    /\ e.date_str = DateOf(strip(lines[k]))
    /\ e.start_dt = At(DateOf(strip(lines[k])), int(r[1]), SCHEDULE_TZ)
    /\ Stamp(e.end_dt) = Stamp(e.start_dt) + (IF r[2] THEN 10 ELSE 8)
    /\ e.is_overtime = r[3]

ValidPairLines == {k \in 1..Len(lines) : ValidPair(k) # {}}

DateLines == {k \in 1..Len(lines) : IsDateLine(strip(lines[k]))}

DistinctDates ==
    \A k1 \in DateLines : \A k2 \in DateLines :
        k1 # k2 => DateOf(strip(lines[k1])) # DateOf(strip(lines[k2]))

\* the date line an event comes from
LineOfEvent(e) ==
    CHOOSE k \in DateLines : DateOf(strip(lines[k])) = e.date_str

C9_OrderOfDateLines ==
    (pc = "done" /\ DistinctDates) =>
        /\ \A j \in 1..Len(parsed_events) :
              \E k \in DateLines :
                  DateOf(strip(lines[k])) = parsed_events[j].date_str
        /\ \A j1 \in 1..Len(parsed_events) : \A j2 \in 1..Len(parsed_events) :
              j1 < j2 => LineOfEvent(parsed_events[j1]) < LineOfEvent(parsed_events[j2])

\* three events were returned for three date lines
C9_Witness ==
    /\ pc = "done"
    /\ DistinctDates
    /\ Len(parsed_events) = 3
    /\ Cardinality(DateLines) = 3

(***************************************************************************)
(* C10: for an input of several date entries, some with a valid work-shift *)
(* indicator, some with X and some unpaired (a date line followed only by  *)
(* free text before the next date line), the number of events returned is  *)
(* the number of date lines with a valid event-producing indicator, and    *)
(* each event carries the date and hour of its own pair.                   *)
(***************************************************************************)
\* free text: a line that holds no date and begins with neither a digit
\* nor X
IsFreeText(l) ==
    /\ l # <<>>
    /\ ~IsDigit(l[1])
    /\ l[1] # "X"
    /\ ~IsDateLine(l)

\* the lines are entries of two lines: a date line for a day of the
\* calendar, then an hour line, X or free text
EntryShape ==
    /\ Len(lines) >= 2
    /\ Len(lines) % 2 = 0
    /\ \A k \in 1..Len(lines) :
          IF k % 2 = 1
          THEN IsDateLine(strip(lines[k])) /\ RealDate(DateOf(strip(lines[k])))
          ELSE \/ IsHourLine(strip(lines[k]))
               \/ strip(lines[k]) = <<"X">>
               \/ IsFreeText(strip(lines[k]))

C10_EventPerValidPair ==
    (pc = "done" /\ EntryShape) =>
        /\ Len(parsed_events) = Cardinality(ValidPairLines)
        /\ \A k \in 1..Len(lines) : \A r \in ValidPair(k) :
              \E j \in 1..Len(parsed_events) :
                  EventOfPair(parsed_events[j], k, r)

(***************************************************************************)
(* Vocabulary for two calls: the call that is running or has just          *)
(* returned, and the calls in history.                                     *)
(***************************************************************************)
\* a blank line, or a descriptive line: text that is no indicator of the
\* grammar (it begins with no digit, X or A) and holds no date
IsFillerLine(l) ==
    \/ strip(l) = <<>>
    \/ IsFreeText(strip(l)) /\ strip(l)[1] # "A"

\* an indicator line: a work-shift indicator or X, and nothing else
IsIndicatorLine(l) == IsHourLine(strip(l)) \/ strip(l) = <<"X">>

\* position k of ls (a line is put after line k) lies between a date line
\* and its indicator line: only filler lines separate it from both
BetweenDateAndIndicator(ls, k) ==
    /\ \E d \in 1..k :
          /\ IsDateLine(strip(ls[d]))
          /\ \A j \in (d + 1)..k : IsFillerLine(ls[j])
    /\ \E m \in (k + 1)..Len(ls) :
          /\ IsIndicatorLine(ls[m])
          /\ \A j \in (k + 1)..(m - 1) : IsFillerLine(ls[j])

\* b is a with one filler line more, between a date line and its indicator
OneFillerMore(a, b) ==
    /\ Len(b) = Len(a) + 1
    /\ \E k \in 1..(Len(a) - 1) :
          /\ b = InsertAt(a, k, b[k + 1])
          /\ IsFillerLine(b[k + 1])
          /\ BetweenDateAndIndicator(a, k)

\* b is a with one or two such filler lines more
FillersMore(a, b) ==
    \/ OneFillerMore(a, b)
    \/ /\ Len(b) = Len(a) + 2
       /\ \E k \in 1..Len(b) :
             LET c == SubSeq(b, 1, k - 1) \o SubSeq(b, k + 1, Len(b))
             IN  OneFillerMore(a, c) /\ OneFillerMore(c, b)

(***************************************************************************)
(* C11: blank lines and descriptive lines put between a date line and its  *)
(* indicator line do not change the result: a call whose lines are those   *)
(* of an earlier call with one or two such lines more returns the same     *)
(* events as that call.                                                    *)
(***************************************************************************)
C11_FillerLinesIgnored ==
    pc = "done" =>
        \A n \in 1..Len(history) :
            FillersMore(history[n].lines, lines)
            => parsed_events = history[n].parsed_events

\* the second call after a call for <date line, 22TEN> had a blank line
\* and a descriptive line more between the two, and returned the event
C11_Witness ==
    /\ pc = "done"
    /\ Len(history) = 2
    /\ history[1].lines = <<DateToken(4, 28, 2024) \o Sun, <<"2", "2">> \o TEN>>
    /\ FillersMore(history[1].lines, lines)
    /\ {strip(lines[2]), lines[3]} = {<<>>, FreeText}
    /\ Len(parsed_events) = 1
    /\ parsed_events = history[1].parsed_events

(***************************************************************************)
(* C12: a date line is paired with at most one indicator line, the first   *)
(* one after it (only blank and descriptive lines lie between); a valid    *)
(* indicator line that directly follows the indicator line of an event is  *)
(* paired with nothing, and every event comes from one pairing: a date     *)
(* line followed by two valid indicator lines gives one event, at the hour *)
(* of the first.                                                           *)
(***************************************************************************)
C12_FirstIndicatorOnly ==
    /\ \A n \in 1..Len(pairings) : \A m \in 1..Len(pairings) :
          n # m => pairings[n].date_line # pairings[m].date_line
    /\ \A n \in 1..Len(pairings) :
          LET p == pairings[n]
          IN  /\ p.ind_line >= 0 =>
                    /\ p.ind_line > p.date_line
                    /\ \A j \in (p.date_line + 1)..(p.ind_line - 1) :
                           IsFillerLine(lines[j + 1])
              /\ ( /\ p.outcome = "event"
                   /\ p.ind_line + 1 < Len(lines)
                   /\ IsHourLine(Line(p.ind_line + 1)) )
                 => \A m \in 1..Len(pairings) :
                        pairings[m].ind_line # p.ind_line + 1
    /\ Len(parsed_events)
          = Cardinality({n \in 1..Len(pairings) : pairings[n].outcome = "event"})
    /\ ( /\ pc = "done"
         /\ Len(lines) = 3
         /\ ValidPair(1) # {}
         /\ IsHourLine(strip(lines[3])) )
       => /\ Len(parsed_events) = 1
          /\ \A r \in ValidPair(1) : EventOfPair(parsed_events[1], 1, r)

\* 04/20/2024, then 09, then 21: one event, at 09:00
C12_Witness ==
    /\ pc = "done"
    /\ lines = <<DateToken(4, 20, 2024) \o Sun, <<"0", "9">>, <<"2", "1">>>>
    /\ Len(parsed_events) = 1
    /\ parsed_events[1].start_dt.hour = 9
    /\ Len(pairings) = 1
    /\ pairings[1].ind_line = 1

(***************************************************************************)
(* C13: a line without a date token that is read while no date is pending  *)
(* changes nothing but the cursor, also when it matches the indicator      *)
(* grammar: no event, no pending date, no diagnostic; and a call whose     *)
(* input has no date line returns the empty list.                          *)
(***************************************************************************)
C13_NoDatePendingIgnored ==
    [][ /\ ( /\ pc \in {"outer", "inner"}
             /\ current_date_str = None
             /\ i < Len(lines)
             /\ ~IsDateLine(Line(i)) )
           => /\ i' = i + 1
              /\ UNCHANGED <<pc, lines, SCHEDULE_TZ, current_date_str,
                             indicator_found, parsed_events, log, pairings>>
        /\ ( /\ pc' = "done"
             /\ pc # "done"
             /\ \A k \in 1..Len(lines) : ~IsDateLine(strip(lines[k])) )
           => parsed_events' = <<>>
      ]_vars

\* the line 21TEN$ was read with no date pending and nothing was added
C13_Witness ==
    /\ pc = "outer"
    /\ lines = <<<<"2", "1">> \o TEN \o <<"$">>>>
    /\ i = 1
    /\ current_date_str = None
    /\ parsed_events = <<>>
    /\ pairings = <<>>

(***************************************************************************)
(* C14: when the input ends while a date is pending and no indicator was   *)
(* found, the date is dropped and the events found so far stay as they     *)
(* are; in the returned list no event comes from a date line that only     *)
(* blank and descriptive lines follow.                                     *)
(***************************************************************************)
\* only blank and descriptive lines follow line k (from 1)
OnlyFillersAfter(k) == \A j \in (k + 1)..Len(lines) : IsFillerLine(lines[j])

C14_DateAtEndOfInput ==
    [][ /\ (pc = "after_inner" /\ ~indicator_found /\ current_date_str # None)
           => /\ i >= Len(lines)
              /\ OnlyFillersAfter(date_line + 1)
              /\ parsed_events' = parsed_events
              /\ current_date_str' = None
              /\ pc' = "outer"
        /\ (pc' = "done" /\ pc # "done")
           => \A k \in DateLines :
                 OnlyFillersAfter(k)
                 => /\ \A n \in 1..Len(pairings) :
                          pairings[n].date_line = k - 1
                          => pairings[n].outcome = "end_of_input"
                    /\ \A j \in 1..Len(parsed_events) :
                          parsed_events[j].date_str = DateOf(strip(lines[k]))
                          => \E k2 \in DateLines :
                                /\ k2 < k
                                /\ DateOf(strip(lines[k2])) = DateOf(strip(lines[k]))
      ]_vars

\* 04/28/2024, 10, 04/29/2024, Some text: the event of 04/28 is returned,
\* the search for 04/29 ended with the input
C14_Witness ==
    /\ pc = "done"
    /\ lines = <<DateToken(4, 28, 2024) \o Sun, <<"1", "0">>,
                 DateToken(4, 29, 2024), FreeText>>
    /\ Len(parsed_events) = 1
    /\ parsed_events[1].date_str = DateToken(4, 28, 2024)
    /\ Len(pairings) = 2
    /\ pairings[2].outcome = "end_of_input"

(***************************************************************************)
(* C15: the empty string, and every input without a valid pairing of a     *)
(* date line with an indicator line, gives the empty list and no error.    *)
(* A valid pairing is a date line for a day of the calendar whose next     *)
(* line that is neither blank nor descriptive is no date line and begins   *)
(* with an hour 0..23.                                                     *)
(***************************************************************************)
\* the hour text a line begins with: its first two characters if both are
\* digits, else its first
LeadingHour(l) ==
    IF Len(l) >= 2 /\ IsDigit(l[2]) THEN SubSeq(l, 1, 2) ELSE SubSeq(l, 1, 1)

HasValidPairing ==
    \E k \in DateLines : \E m \in (k + 1)..Len(lines) :
        LET l == strip(lines[m])
        IN  /\ RealDate(DateOf(strip(lines[k])))
            /\ \A j \in (k + 1)..(m - 1) : IsFillerLine(lines[j])
            /\ l # <<>>
            /\ ~IsDateLine(l)
            /\ IsDigit(l[1])
            /\ int(LeadingHour(l)) \in 0..23

C15_NoPairingNoEvents ==
    /\ pc # "raised"
    /\ (pc = "done" /\ ~HasValidPairing) => parsed_events = <<>>

(***************************************************************************)
(* C16: whitespace before a date line or an indicator line, text after the *)
(* date on a date line and text after the indicator on an indicator line   *)
(* do not change the result: a call whose text is that of an earlier call  *)
(* with every date line and every indicator line so adorned returns the    *)
(* same events as that call.                                               *)
(***************************************************************************)
\* the lines that Adorned changes are date lines and indicator lines
AdornsDatesAndIndicators(ls) ==
    \A k \in 1..Len(ls) :
        Adorned(ls)[k] # ls[k]
        => /\ Adorned(ls)[k] = LeadingWhitespace \o ls[k] \o TrailingText
           /\ IsDateLine(strip(ls[k])) \/ IsIndicatorLine(ls[k])

C16_WhitespaceAndTrailingText ==
    pc = "done" =>
        \A n \in 1..Len(history) :
            ( /\ text_schedule = Join(Adorned(history[n].lines))
              /\ AdornsDatesAndIndicators(history[n].lines) )
            => parsed_events = history[n].parsed_events

\* after a call for <date line, 22TEN>, the call for the adorned text
\* returned the same event, a shift of ten hours from 22:00
C16_Witness ==
    /\ pc = "done"
    /\ Len(history) = 1
    /\ history[1].lines = <<DateToken(4, 28, 2024) \o Sun, <<"2", "2">> \o TEN>>
    /\ lines = << DateToken(4, 28, 2024) \o Sun \o TrailingText,
                  LeadingWhitespace \o <<"2", "2">> \o TEN \o TrailingText >>
    /\ Len(parsed_events) = 1
    /\ parsed_events[1].start_dt.hour = 22
    /\ parsed_events[1].end_dt.hour = 8
    /\ parsed_events = history[1].parsed_events

(***************************************************************************)
(* C17: the summary of an event is "Work Shift (8hr)" when the shift lasts *)
(* 8 hours and "Work Shift (10hr)" when it lasts 10, followed by " (OT)"   *)
(* exactly when the event's is_overtime is true.                           *)
(***************************************************************************)
\* hours from the start to the end of event e
Hours(e) == Stamp(e.end_dt) - Stamp(e.start_dt)

C17_SummaryText ==
    \A j \in 1..Len(parsed_events) :
        LET e == parsed_events[j]
        IN  /\ Hours(e) \in {8, 10}
            /\ e.is_overtime \in BOOLEAN
            /\ Hours(e) = 8  /\ ~e.is_overtime
                  => e.summary = <<"Work Shift (", "8", "hr)">>
            /\ Hours(e) = 8  /\ e.is_overtime
                  => e.summary = <<"Work Shift (", "8", "hr)", " (OT)">>
            /\ Hours(e) = 10 /\ ~e.is_overtime
                  => e.summary = <<"Work Shift (", "10", "hr)">>
            /\ Hours(e) = 10 /\ e.is_overtime
                  => e.summary = <<"Work Shift (", "10", "hr)", " (OT)">>

\* 23TEN$ on the last day of 2024: "Work Shift (10hr) (OT)", and the shift
\* ends ten hours later, in 2025
C17_Witness ==
    /\ pc = "done"
    /\ Len(lines) = 2
    /\ Line(1) = <<"2", "3">> \o TEN \o <<"$">>
    /\ Len(parsed_events) = 1
    /\ parsed_events[1].summary = <<"Work Shift (", "10", "hr)", " (OT)">>
    /\ parsed_events[1].is_overtime
    /\ parsed_events[1].end_dt.year = 2025

(***************************************************************************)
(* C18: every event starts strictly before it ends, and the start and the  *)
(* end of every event of a call carry one and the same zone, the zone of   *)
(* the call.                                                               *)
(***************************************************************************)
C18_StartBeforeEndSameZone ==
    \A j \in 1..Len(parsed_events) :
        LET e == parsed_events[j]
        IN  /\ Stamp(e.start_dt) < Stamp(e.end_dt)
            /\ e.start_dt.tzinfo = e.end_dt.tzinfo
            /\ e.start_dt.tzinfo = SCHEDULE_TZ
            /\ e.start_dt.tzinfo \in {SCHEDULE_TZ_NAME, "tzlocal"}
            /\ \A j2 \in 1..Len(parsed_events) :
                  parsed_events[j2].start_dt.tzinfo = e.start_dt.tzinfo

\* three events returned by a call that fell back to the local zone
C18_Witness ==
    /\ pc = "done"
    /\ Len(parsed_events) = 3
    /\ SCHEDULE_TZ = "tzlocal"
    /\ parsed_events[1].is_overtime # parsed_events[2].is_overtime
    /\ \A j \in 1..3 : parsed_events[j].end_dt.tzinfo = "tzlocal"

(***************************************************************************)
(* C19: at most one date is pending, and the scan is in one of two modes:  *)
(* seeking a date (the head of the outer loop, and the return) with no     *)
(* date pending, or seeking an indicator (the inner loop) for one pending  *)
(* date with no indicator found yet.  Leaving the inner loop, the date is  *)
(* cleared already unless the input ended without an indicator.            *)
(***************************************************************************)
\* a single token MM/DD/YYYY
IsDateToken(d) == Len(d) = 10 /\ DateAt(d, 1)

C19_OnePendingDate ==
    /\ current_date_str = None \/ IsDateToken(current_date_str)
    /\ pc \in {"outer", "done"} => current_date_str = None
    /\ pc = "inner"
          => /\ IsDateToken(current_date_str)
             /\ ~indicator_found
             /\ current_date_str = DateOf(Line(date_line))
    /\ (pc = "after_inner" /\ current_date_str # None)
          => ~indicator_found /\ i >= Len(lines)

\* the first date was abandoned for a following date line, the second had
\* an invalid hour: the scan is seeking a date and none is pending
C19_Witness ==
    /\ pc = "outer"
    /\ current_date_str = None
    /\ Len(pairings) = 2
    /\ pairings[1].outcome = "next_date"
    /\ pairings[2].outcome = "rejected"

CallLogStart ==
    CHOOSE k \in 1..Len(log) :
        /\ log[k].what = "start"
        /\ \A j \in (k + 1)..Len(log) : log[j].what # "start"

\* the warnings "date without indicator" of the running call
DateWarnings ==
    {k \in CallLogStart..Len(log) :
        log[k].level = "warning" /\ log[k].what = "date without indicator"}

\* the dates the running call dropped with no indicator found
DroppedDates ==
    {n \in 1..Len(pairings) : pairings[n].outcome \in {"next_date", "end_of_input"}}

C23_DroppedDateWarned ==
    pc \in {"outer", "done"} => Cardinality(DateWarnings) = Cardinality(DroppedDates)

(***************************************************************************)
(* C24: a line that contains a date and is met while an indicator is       *)
(* sought ends the search without moving the cursor past it; the same line *)
(* is read next at the head of the outer loop and its date becomes the     *)
(* pending date.  So when the lines are k >= 2 date lines and then a valid *)
(* work-shift indicator, the result is one event, for the date of the last *)
(* date line.                                                              *)
(***************************************************************************)
\* the lines are date lines for days of the calendar, then one hour line
\* with a valid hour
DateRunThenHour ==
    /\ Len(lines) >= 3
    /\ \A k \in 1..(Len(lines) - 1) :
          IsDateLine(strip(lines[k])) /\ RealDate(DateOf(strip(lines[k])))
    /\ ValidPair(Len(lines) - 1) # {}

C24_DateLineReprocessed ==
    [][ /\ (pc = "inner" /\ i < Len(lines) /\ IsDateLine(Line(i)))
           => /\ i' = i
              /\ current_date_str' = None
              /\ pc' = "after_inner"
              /\ parsed_events' = parsed_events
        /\ (pc = "outer" /\ i < Len(lines) /\ IsDateLine(Line(i)))
           => /\ current_date_str' = DateOf(Line(i))
              /\ date_line' = i
              /\ pc' = "inner"
        /\ (pc' = "done" /\ pc # "done" /\ DateRunThenHour)
           => /\ Len(parsed_events) = 1
              /\ \A r \in ValidPair(Len(lines) - 1) :
                    EventOfPair(parsed_events[1], Len(lines) - 1, r)
      ]_vars

(***************************************************************************)
(* C25: the date of a date line is the first token MM/DD/YYYY in the line, *)
(* wherever it stands: the date_str of every event is the first such token *)
(* of the date line the event was paired from.                             *)
(***************************************************************************)
\* the ten characters at the least position of l where a token begins
FirstDateToken(l) ==
    LET first == CHOOSE p \in 1..Len(l) :
                     DateAt(l, p) /\ \A q \in 1..Len(l) : DateAt(l, q) => p <= q
    IN  [k \in 1..10 |-> l[first + k - 1]]

\* the pairings that gave an event, up to the n-th
EventPairingsUpTo(n) == {m \in 1..n : pairings[m].outcome = "event"}

C25_FirstDateToken ==
    \A n \in 1..Len(pairings) :
        pairings[n].outcome = "event"
        => /\ Cardinality(EventPairingsUpTo(n)) <= Len(parsed_events)
           /\ parsed_events[Cardinality(EventPairingsUpTo(n))].date_str
                 = FirstDateToken(Line(pairings[n].date_line))

\* "Sun 04/28/2024 to 05/02/2024", then 09: the event is for 04/28/2024
C25_Witness ==
    /\ pc = "done"
    /\ Len(lines) = 2
    /\ Line(0) = <<"S", "u", "n", " ">> \o DateToken(4, 28, 2024)
                    \o <<" ", "t", "o", " ">> \o DateToken(5, 2, 2024)
    /\ Len(parsed_events) = 1
    /\ parsed_events[1].date_str = DateToken(4, 28, 2024)
    /\ parsed_events[1].start_dt.day = 28

(***************************************************************************)
(* C26: an indicator with an invalid hour, read for a pending date, gives  *)
(* exactly one diagnostic of level warning or error and no event, and the  *)
(* scan goes on: the cursor moves to the next line, no further diagnostic  *)
(* follows for that line, and the call returns only when every line was    *)
(* read.                                                                   *)
(***************************************************************************)
\* the diagnostics of level warning or error in a log
Diagnostics(l) == {k \in 1..Len(l) : l[k].level \in {"warning", "error"}}

C26_InvalidHourOneDiagnostic ==
    [][ /\ (pc = "inner" /\ i < Len(lines) /\ InvalidHourLine(Line(i)))
           => /\ Cardinality(Diagnostics(log')) = Cardinality(Diagnostics(log)) + 1
              /\ log'[Len(log')].level = "error"
              /\ parsed_events' = parsed_events
              /\ i' = i + 1
              /\ pc' = "after_inner"
        /\ (pc = "after_inner" /\ indicator_found)
           => log' = log /\ pc' = "outer" /\ i' = i
        /\ pc' # "raised"
        /\ (pc' = "done" /\ pc # "done") => i >= Len(lines)
      ]_vars

\* date, 99, date, 10: one diagnostic, for the line 99, and the event of
\* the second date
C26_Witness ==
    /\ pc = "done"
    /\ history = <<>>
    /\ lines = <<DateToken(4, 28, 2024) \o Sun, <<"9", "9">>,
                 DateToken(4, 29, 2024), <<"1", "0">>>>
    /\ Cardinality(Diagnostics(log)) = 1
    /\ pairings[1].outcome = "rejected"
    /\ Len(parsed_events) = 1
    /\ parsed_events[1].date_str = DateToken(4, 29, 2024)

\* every visitor posts MaxCalls - 1 forms, each with any of the texts, on a
\* host where the ics library works or raises; create_ics_content is called
\* with every list of at most MaxEntries items
InitWeb ==
    \/ Calls({})
    \/ /\ \E r \in Routes, t \in FormTexts : InitRequest(r, t)
       /\ \E s \in Sessions : session = s
       /\ \E u \in UserTables : users = u
       /\ gettz \in {SCHEDULE_TZ_NAME, "None"}
       /\ ics_raises \in BOOLEAN
       /\ items = <<>>
       /\ rival = NoRival
       /\ creds = "None"
       /\ calls_left = MaxCalls - 2
    \/ /\ \E its \in SeqsUpTo(IcsItems, MaxEntries) : InitIcs(its)
       /\ gettz = SCHEDULE_TZ_NAME
       /\ ics_raises \in BOOLEAN

SpecWeb == InitWeb /\ [][Next]_vars

(***************************************************************************)
(* C21.                                                                    *)
(***************************************************************************)
\* create_ics_content has returned: called by a test, or by generate_ics
IcsReturned ==
    /\ hpc = "responded"
    /\ \/ route = "create_ics_content"
       \/ route = "generate_ics" /\ response.status \in {200, 500} /\ pc = "done"

\* the list create_ics_content was called with
IcsArgument == IF route = "create_ics_content" THEN items ELSE parsed_events

\* both datetimes of the item are present and zone-aware
BothAware(item) ==
    /\ "start_dt" \in DOMAIN item
    /\ "end_dt" \in DOMAIN item
    /\ item.start_dt.tzinfo # "naive"
    /\ item.end_dt.tzinfo # "naive"

\* where the VEVENT components of the content begin
VEvents(content) ==
    {k \in 1..Len(content) :
        content[k].name = "BEGIN" /\ content[k].value = "VEVENT"}

\* the VEVENT beginning at line k is the one of the item
IsEventOf(content, k, item) ==
    /\ content[k + 1].name = "DTEND" /\ content[k + 1].value = item.end_dt
    /\ content[k + 2].name = "DTSTART" /\ content[k + 2].value = item.start_dt
    /\ content[k + 3].name = "SUMMARY"
    /\ content[k + 3].value = (IF "summary" \in DOMAIN item THEN item.summary
                               ELSE <<"Work Shift">>)

\* C21: when create_ics_content has returned on a host where the ics library
\* raised nothing, the content is a calendar with exactly one VEVENT for
\* each item of the list that has both datetimes present and zone-aware
\* (none for an empty list), every such item has its VEVENT in it, and no
\* error of the generation was logged: the other items were skipped
C21_SkipsInvalidEvents ==
    (IcsReturned /\ ~ics_raises) =>
        LET arg   == IcsArgument
            valid == {n \in 1..Len(arg) : BothAware(arg[n])}
        IN  /\ ics_content # <<>>
            /\ ics_content[1] = ContentLine("BEGIN", "VCALENDAR")
            /\ ics_content[Len(ics_content)] = ContentLine("END", "VCALENDAR")
            /\ Cardinality(VEvents(ics_content)) = Cardinality(valid)
            /\ \A n \in valid :
                   \E k \in VEvents(ics_content) :
                       IsEventOf(ics_content, k, arg[n])
            /\ \A k \in 1..Len(log) : log[k].what # "ics: error"

\* a list of three items was serialized: one lacks a datetime, one has a
\* naive datetime, and the third is in the calendar
C21_Witness ==
    /\ route = "create_ics_content"
    /\ hpc = "responded"
    /\ ~ics_raises
    /\ Len(items) = 3
    /\ \E n \in 1..3 : "end_dt" \notin DOMAIN items[n]
    /\ \E n \in 1..3 : /\ "start_dt" \in DOMAIN items[n]
                       /\ "end_dt" \in DOMAIN items[n]
                       /\ items[n].end_dt.tzinfo = "naive"
    /\ Cardinality(VEvents(ics_content)) = 1

(***************************************************************************)
(* C22.                                                                    *)
(***************************************************************************)
\* where the log of the request being served begins
RequestLogStart ==
    CHOOSE k \in 1..Len(log) :
        /\ log[k].what \in {"generate_ics: entered", "submit_to_google: entered"}
        /\ \A j \in (k + 1)..Len(log) :
               log[j].what \notin {"generate_ics: entered",
                                   "submit_to_google: entered"}

\* the request being served called the parser, which returned no event
ParsedNothing ==
    /\ route \in Routes
    /\ hpc # "parsing"
    /\ pc = "done"
    /\ parsed_events = <<>>

CouldNotParse ==
    "Could not parse any valid events from the text provided. Please check the format."

\* C22: when the parser returns no event to a request handler, the handler
\* has responded right after the parse: generate_ics with status 400 and the
\* message "Could not parse any valid events", create_ics_content not
\* called; submit_to_google with that message flashed and a redirect to the
\* index, no refresh of the credentials and no call of the calendar API made
C22_ZeroEventsStop ==
    ParsedNothing =>
        /\ hpc = "responded"
        /\ route = "generate_ics" =>
               /\ response = Returned(CouldNotParse, 400)
               /\ ics_content = <<>>
               /\ \A k \in RequestLogStart..Len(log) : log[k].what # "ics: start"
        /\ route = "submit_to_google" =>
               /\ response = RedirectIndex
               /\ flashed = <<[message |-> CouldNotParse, category |-> "warning"]>>
               /\ api_calls = <<>>

\* submit_to_google was posted a text with no schedule in it by a visitor
\* with a refresh token, and has redirected
C22_Witness ==
    /\ route = "submit_to_google"
    /\ ParsedNothing
    /\ hpc = "responded"
    /\ schedule_text = FreeText
    /\ Authenticated

(***************************************************************************)
(* C27.                                                                    *)
(***************************************************************************)
\* submit_to_google has responded after inserting every parsed event
AllPosted ==
    /\ route = "submit_to_google"
    /\ hpc = "responded"
    /\ pc = "done"
    /\ parsed_events # <<>>
    /\ success_count = Len(parsed_events)

\* the entries of the calendar that lie in the window of the submission,
\* from the earliest start to one day after the latest end
InWindow ==
    {k \in 1..Len(calendar) :
        /\ \E n \in 1..Len(parsed_events) :
               Stamp(parsed_events[n].start_dt) <= Stamp(calendar[k].start.dateTime)
        /\ \E n \in 1..Len(parsed_events) :
               Stamp(calendar[k].end.dateTime)
                   <= Stamp(parsed_events[n].end_dt) + 24}

\* C27: after a submission in which every parsed event was inserted, the
\* calendar holds in the window min(start) .. max(end) + 1 day the events of
\* this submission and nothing else, each of them once: what was posted
\* there before was purged, a schedule submitted twice is not there twice
C27_PurgeBeforeInsert ==
    AllPosted =>
        /\ Cardinality(InWindow) = Len(parsed_events)
        /\ \A n \in 1..Len(parsed_events) :
               Cardinality({k \in InWindow :
                   calendar[k] = event_resource(parsed_events[n])}) = 1

(***************************************************************************)
(* C28.                                                                    *)
(***************************************************************************)
\* the message of the first check of submit_to_google that fails, the
\* checks taken in the order: session, user, refresh token, text, parse
FirstFailure ==
    IF session = "None"
    THEN [message |-> "You must be logged in to post to Google Calendar.",
          category |-> "warning"]
    ELSE IF \A k \in 1..Len(users) : users[k].google_id # session
    THEN [message |-> "Logged in user not found in database. Please log in again.",
          category |-> "danger"]
    ELSE IF \A k \in 1..Len(users) :
                users[k].google_id = session =>
                    users[k].google_refresh_token = "None"
    THEN [message |-> "Missing Google permission (refresh token) to access calendar offline. Please log in again, ensuring you grant calendar access.",
          category |-> "danger"]
    ELSE IF schedule_text = <<>>
    THEN [message |-> "No schedule text was submitted.", category |-> "warning"]
    ELSE IF pc = "raised"
    THEN [message |-> "An error occurred while parsing the schedule.",
          category |-> "danger"]
    ELSE [message |-> CouldNotParse, category |-> "warning"]

\* C28: submit_to_google makes a call to Google (the refresh of the
\* credentials, the build of the service, an insertion) only in a state
\* where the session has a google_id, the table has a user with it, the user
\* has a refresh token, the text is not empty and the parser returned at
\* least one event; when it responds before any such call, it redirects to
\* the index with the message of the first of these checks that fails, in
\* that order, and has called nothing
C28_ChecksBeforeApi ==
    [][route = "submit_to_google" =>
        /\ Len(api_calls') > Len(api_calls) =>
               /\ session # "None"
               /\ \E k \in 1..Len(users) :
                      /\ users[k].google_id = session
                      /\ users[k].google_refresh_token # "None"
               /\ schedule_text # <<>>
               /\ pc = "done"
               /\ parsed_events # <<>>
        /\ (hpc \in {"entered", "parsing"} /\ hpc' = "responded") =>
               /\ response' = RedirectIndex
               /\ flashed' = <<FirstFailure>>
               /\ api_calls' = <<>>
               /\ calendar' = calendar]_vars

\* the credentials were refreshed, the service built and an event inserted
\* for a visitor who passed every check
C28_Witness ==
    /\ route = "submit_to_google"
    /\ hpc = "insert"
    /\ Len(api_calls) = 3
    /\ api_calls[1].call = "refresh"
    /\ api_calls[3].call = "insert"
    /\ Len(calendar) = 1

(***************************************************************************)
(* C29.                                                                    *)
(***************************************************************************)
\* the calls events().insert made by this request for the n-th parsed event
Inserts(n) ==
    {k \in 1..Len(api_calls) :
        api_calls[k].call = "insert" /\ api_calls[k].event = n}

\* submit_to_google has responded after the loop over parsed_events ended:
\* the service was built and nothing unexpected was flashed
LoopEnded ==
    /\ route = "submit_to_google"
    /\ hpc = "responded"
    /\ \E k \in 1..Len(api_calls) : api_calls[k].call = "build"
    /\ flashed[Len(flashed)].message
           # "An unexpected error occurred while submitting to Google Calendar."

\* C29: while the loop of submit_to_google runs, each parsed event before
\* the cursor was attempted with one call of insert, no later event with
\* any, and success_count + fail_count is the number of events before the
\* cursor, whatever insertion failed; when the loop has ended every parsed
\* event was attempted once, success_count + fail_count is the number of
\* parsed events, and the message flashed quotes these counts
C29_EveryEventAttemptedOnce ==
    /\ (route = "submit_to_google" /\ hpc = "insert") =>
           /\ success_count + fail_count = event_index
           /\ event_index <= Len(parsed_events)
           /\ \A n \in 1..Len(parsed_events) :
                  Cardinality(Inserts(n)) = (IF n <= event_index THEN 1 ELSE 0)
    /\ LoopEnded =>
           /\ success_count + fail_count = Len(parsed_events)
           /\ \A n \in 1..Len(parsed_events) : Cardinality(Inserts(n)) = 1
           /\ flashed = <<ResultMessage(success_count, fail_count)>>

\* of two parsed events the first was refused by Google and the second
\* inserted
C29_Witness ==
    /\ LoopEnded
    /\ Len(parsed_events) = 2
    /\ fail_count = 1
    /\ success_count = 1
    /\ calendar # <<>>
    /\ calendar[Len(calendar)] = event_resource(parsed_events[2])

(***************************************************************************)
(* C30.                                                                    *)
(***************************************************************************)
\* the response is the calendar file
IsCalendarFile(r) ==
    /\ r.status = 200
    /\ r.mimetype = "text/calendar"
    /\ r.disposition = "attachment; filename=schedule.ics"
    /\ r.body = ics_content

\* C30: when generate_ics has responded, the response is the calendar file
\* (text/calendar, an attachment) exactly when the text was not empty, the
\* parser raised nothing and returned at least one event, and the content
\* has at least 50 characters; it is a 400 when the text was empty or no
\* event was parsed, and a 500 when the parser raised or the content is
\* empty (the serialization raised) or shorter than 50 characters
C30_FileOnlyWhenValid ==
    (route = "generate_ics" /\ hpc = "responded") =>
        IF schedule_text = <<>> THEN response.status = 400
        ELSE IF pc = "raised" THEN response.status = 500
        ELSE /\ pc = "done"
             /\ IF parsed_events = <<>> THEN response.status = 400
                ELSE IF ics_content = <<>> \/ len(ics_content) < 50
                THEN response.status = 500
                ELSE IsCalendarFile(response)

\* a schedule of two shifts was answered with a file of two events
C30_Witness ==
    /\ route = "generate_ics"
    /\ hpc = "responded"
    /\ Len(parsed_events) = 2
    /\ IsCalendarFile(response)
    /\ Cardinality(VEvents(response.body)) = 2
    /\ len(response.body) >= 50

(***************************************************************************)
(* C34.                                                                    *)
(***************************************************************************)
\* the reads of line k by one of the two loops
ReadsOf(rs, k, loop) ==
    {n \in 1..Len(rs) : rs[n].line = k /\ rs[n].by = loop}

\* how far the call is from its return: the lines not yet consumed, then the
\* position within the iteration
Rank(p) ==
    CASE p = "inner" -> 3
      [] p = "after_inner" -> 2
      [] p = "outer" -> 1
      [] OTHER -> 0

Remaining(p, cursor, ls) == 4 * (Len(ls) - cursor) + Rank(p)

\* parse_schedule_text is between its first and its last statement
InLoops == pc \in {"outer", "inner", "after_inner"}

\* C34: every step of the loops of parse_schedule_text brings the call
\* nearer to its return (the cursor stays within the lines and the count of
\* lines left, refined by the position in the iteration, decreases); the
\* cursor never ends a step before where it began it, and ends it on the
\* line it read only when that line holds a date and was no indicator (the
\* rewind); a turn of the outer loop moves the cursor by one line, and the
\* search for an indicator leaves it past the date line; no line is read
\* more than once by either loop, a line read by both was read by the inner
\* loop first
C34_Terminates ==
    [][InLoops =>
         /\ 0 <= i' /\ i' <= Len(lines')
         /\ Remaining(pc', i', lines') < Remaining(pc, i, lines)
         /\ i' >= i
         /\ (pc = "inner" /\ i < Len(lines) /\ i' = i) =>
                /\ date_pattern_search(Line(i)) # None
                /\ ~indicator_pattern_match(Line(i)).matched
         /\ (pc = "outer" /\ pc' # "done") => i' = i + 1
         /\ pc' \in {"inner", "after_inner"} => i' > date_line'
         /\ \A k \in 0..(Len(lines') - 1) :
                /\ Cardinality(ReadsOf(reads', k, "inner")) <= 1
                /\ Cardinality(ReadsOf(reads', k, "outer")) <= 1
                /\ \A n \in ReadsOf(reads', k, "inner") :
                       \A m \in ReadsOf(reads', k, "outer") : n < m]_vars

\* a call has returned after reading one line twice: the inner loop met a
\* date line and the outer loop read it again
C34_Witness ==
    /\ pc = "done"
    /\ \E k \in 0..(Len(lines) - 1) :
           /\ ReadsOf(reads, k, "inner") # {}
           /\ ReadsOf(reads, k, "outer") # {}

(***************************************************************************)
(* C35.                                                                    *)
(***************************************************************************)
\* the diagnostics "Timezone Error ... Falling back to server local time"
ZoneDiagnostics == {k \in 1..Len(log) : log[k].what = "timezone"}

\* C35: on a host where the zone name is not resolved no call fails, every
\* event of every call carries the local zone, and the failure is reported
\* by one diagnostic for the whole run, however many calls are made
C35_ZoneFallbackReportedOnce ==
    gettz = "None" =>
        /\ pc # "raised"
        /\ pc \in {"outer", "inner", "after_inner", "done"} =>
               SCHEDULE_TZ = "tzlocal"
        /\ \A n \in 1..Len(parsed_events) :
               /\ parsed_events[n].start_dt.tzinfo = "tzlocal"
               /\ parsed_events[n].end_dt.tzinfo = "tzlocal"
        /\ \A n \in 1..Len(history) :
               \A m \in 1..Len(history[n].parsed_events) :
                   history[n].parsed_events[m].start_dt.tzinfo = "tzlocal"
        /\ Cardinality(ZoneDiagnostics) <= 1

(***************************************************************************)
(* C33.                                                                    *)
(***************************************************************************)
\* the event given to insert_event can be posted
Postable(event_details) ==
    /\ "summary" \in DOMAIN event_details
    /\ BothAware(event_details)

\* C33: when insert_event has ended it has returned a boolean and raised
\* nothing; with no credentials, or an event lacking summary, start or end
\* or with a naive datetime, it returned False and called nothing; when the
\* build of the service or the insertion failed, whatever the exception, it
\* returned False; and it returned True only after an insertion that
\* succeeded
C33_InsertEventNeverRaises ==
    (route = "insert_event" /\ hpc = "responded") =>
        /\ returned.exc = ""
        /\ returned.value \in BOOLEAN
        /\ (creds = "None" \/ ~Postable(items[1])) =>
               /\ returned.value = FALSE
               /\ api_calls = <<>>
        /\ (\E k \in 1..Len(api_calls) : api_calls[k].outcome # "ok") =>
               returned.value = FALSE
        /\ returned.value = TRUE =>
               /\ api_calls # <<>>
               /\ api_calls[Len(api_calls)] = Called("insert", "ok")
               /\ calendar # <<>>

(***************************************************************************)
(* C31: the stored refresh token is never replaced by null.                *)
(***************************************************************************)
\* browser b's callback commits in this step, with no refresh_token in its
\* token response
CommitsWithoutToken(b) ==
    IF b = 1
    THEN /\ route = "callback"
         /\ hpc = "queried"
         /\ hpc' = "responded"
         /\ callback.refresh_token = "None"
    ELSE /\ rival.hpc = "queried"
         /\ rival'.hpc = "responded"
         /\ rival.locals.refresh_token = "None"

\* credentials.refresh raises RefreshError in this step
RefreshFails ==
    /\ route = "submit_to_google"
    /\ hpc = "refresh"
    /\ hpc' = "responded"
    /\ log' = Logged("error", "submit_to_google: refresh failed")

\* the rows of the table keep their place, their google_id and their token
RowsKept == \A k \in 1..Len(users) : users'[k] = users[k]

\* C31: in every step of callbacks, logouts and submissions no row is
\* removed, and a row whose stored refresh token is not null keeps a token
\* that is not null; a callback whose token response has no refresh_token
\* leaves every stored token as it was, and so does a failed refresh in
\* submit_to_google
C31_TokenNeverCleared ==
    [][/\ Len(users') >= Len(users)
       /\ \A k \in 1..Len(users) :
              /\ users'[k].google_id = users[k].google_id
              /\ users[k].google_refresh_token # "None"
                     => users'[k].google_refresh_token # "None"
       /\ (\E b \in Browsers : CommitsWithoutToken(b)) => RowsKept
       /\ RefreshFails => users' = users]_vars

\* a callback with no refresh_token has logged in a user whose row holds a
\* token, and the token is still there
C31_Witness ==
    /\ route = "callback"
    /\ hpc = "responded"
    /\ callback.user # 0
    /\ callback.refresh_token = "None"
    /\ session = callback.google_id
    /\ users[callback.user].google_refresh_token = "token"

(***************************************************************************)
(* C32: the session and the table of users.                                *)
(***************************************************************************)
\* a row of the table has this google_id
Committed(table, google_id) == query_first(table, google_id) # 0

\* the session names no user, or one with a row in the table
Consistent(s, table) == s # "None" => Committed(table, s)

\* the callback of browser 1 sends its response in this step
CallbackCompletes ==
    /\ route = "callback"
    /\ hpc \in {"entered", "queried"}
    /\ hpc' = "responded"

\* the callback of browser 2 sends its response in this step
RivalCompletes ==
    /\ rival.hpc \in {"entered", "queried"}
    /\ rival'.hpc = "responded"

\* the message of the handler of the callback's exception, or of line 46
CallbackError(fl) ==
    /\ fl # <<>>
    /\ fl[Len(fl)].category = "danger"

\* a view function other than callback answers the request in this step
Answers(r) ==
    /\ route = r
    /\ hpc = "entered"
    /\ hpc' = "responded"

\* C32: a callback that completes leaves in the session the google_id of a
\* row committed in the table, or, when it failed, what the session held; a
\* session that names a committed user keeps doing so in every step; logout
\* leaves the session without google_id; index and submit_to_google remove a
\* google_id no row matches, and submit_to_google removes it on RefreshError
C32_SessionConsistency ==
    [][/\ CallbackCompletes =>
              /\ session' # session => Committed(users', session')
              /\ CallbackError(flashed') => session' = session
              /\ ~CallbackError(flashed') =>
                     session' = callback.google_id /\ Committed(users', session')
       /\ RivalCompletes =>
              /\ rival'.session # rival.session => Committed(users', rival'.session)
              /\ CallbackError(rival'.flashed) => rival'.session = rival.session
              /\ ~CallbackError(rival'.flashed) =>
                     /\ rival'.session = rival.locals.google_id
                     /\ Committed(users', rival'.session)
       /\ Consistent(session, users) => Consistent(session', users')
       /\ Consistent(rival.session, users) => Consistent(rival'.session, users')
       /\ Answers("logout") => session' = "None"
       /\ (Answers("index") \/ Answers("submit_to_google")) /\ ~Committed(users, session)
              => session' = "None"
       /\ RefreshFails => session' = "None"]_vars

\* a callback failed for a browser whose session held a google_id, which it
\* still holds
C32_Witness ==
    /\ route = "callback"
    /\ hpc = "responded"
    /\ CallbackError(flashed)
    /\ session = "g1"
    /\ callback.google_id = "g1"
    /\ callback.user = 0
    /\ Committed(users, "g1")

(***************************************************************************)
(* C36: concurrent callbacks for one Google account.                       *)
(***************************************************************************)
\* no two rows of the table have the same google_id
UniqueGoogleId(table) ==
    \A j, k \in 1..Len(table) :
        table[j].google_id = table[k].google_id => j = k

\* request c of /callback read "no user" and its insert was refused
InsertFailed(c) ==
    /\ c.hpc = "responded"
    /\ c.locals.google_id # "None"
    /\ c.locals.user = 0
    /\ CallbackError(c.flashed)

\* both callbacks were for the same account and both read "no user"
BothReadNoUser ==
    /\ route = "callback"
    /\ hpc = "responded"
    /\ rival.hpc = "responded"
    /\ callback.google_id # "None"
    /\ callback.google_id = rival.locals.google_id
    /\ callback.user = 0
    /\ rival.locals.user = 0

\* browser b's callback, which read "no user", has its insert refused in
\* this step
InsertFails(b) ==
    IF b = 1
    THEN CallbackCompletes /\ hpc = "queried" /\ callback.user = 0
             /\ CallbackError(flashed')
    ELSE RivalCompletes /\ rival.hpc = "queried" /\ rival.locals.user = 0
             /\ CallbackError(rival'.flashed)

\* C36: however the callbacks interleave, the table never comes to hold two
\* rows with one google_id; the callback whose insert fails adds no row,
\* answers with the redirect to the index and leaves its session as it was;
\* and when both callbacks read "no user" for the same account, exactly one
\* insert failed and one row has the account's google_id
C36_ConcurrentCallbacks ==
    [][/\ UniqueGoogleId(users')
       /\ InsertFails(1) =>
              /\ users' = users
              /\ session' = session
              /\ response' = RedirectIndex
       /\ InsertFails(2) =>
              /\ users' = users
              /\ rival'.session = rival.session
              /\ rival'.response = RedirectIndex
       /\ BothReadNoUser' =>
              /\ InsertFailed(Request(1))' # InsertFailed(Request(2))'
              /\ Cardinality({k \in 1..Len(users') :
                     users'[k].google_id = callback'.google_id}) = 1]_vars

\* both callbacks read "no user" for g1; browser 2 inserted the row and is
\* logged in, the insert of browser 1 failed and its session is empty still
C36_Witness ==
    /\ BothReadNoUser
    /\ callback.google_id = "g1"
    /\ InsertFailed(Request(1))
    /\ ~InsertFailed(Request(2))
    /\ session = "None"
    /\ rival.session = "g1"
    /\ response = RedirectIndex

\* browser 2 sends a request of /callback, with or without a session
Rivals ==
    {NoRival} \cup
    {[NoRival EXCEPT !.hpc = "entered", !.session = s] : s \in {"None", "g2"}}

\* a browser sends a page request or a submission;
\* with a callback, another browser may send one of its own
InitAuth ==
    \/ Calls({})
    \/ /\ \/ /\ \E r \in Pages : InitRequest(r, <<>>)
             /\ \E c \in Rivals : rival = c /\ (route # "callback" => c = NoRival)
          \/ /\ \E t \in FormTexts : InitRequest("submit_to_google", t)
             /\ rival = NoRival
       /\ \E s \in Sessions : session = s
       /\ \E u \in UserTables : users = u
       /\ gettz = SCHEDULE_TZ_NAME
       /\ ics_raises = FALSE
       /\ items = <<>>
       /\ creds = "None"
       /\ calls_left = MaxCalls - 3

SpecAuth == InitAuth /\ [][Next]_vars

=============================================================================
